---------------------------- MODULE Spec2Model ----------------------------
(***************************************************************************)
(* A model of the SideBySideDiff component                                 *)
(* (app/src/ui/diff/side-by-side-diff.tsx): its props, its state, the      *)
(* private restore slot, the highlight requests in flight, and one action  *)
(* per handler.                                                            *)
(*                                                                         *)
(* Conventions.  An optional value (T | undefined, T | null) is a tuple:   *)
(* <<>> when absent, <<v>> when present.  An absent line number is Null.   *)
(* A string is a record [text, pad]: the tuple of its leading characters   *)
(* followed by pad copies of a filler character that occurs in no search   *)
(* query, so that long lines do not need long tuples.                      *)
(***************************************************************************)
EXTENDS Integers, Sequences, FiniteSets, TLC

VARIABLES
    file,               \* props.file: [id, workingDirectory]
    selection,          \* props.file.selection: the included diff line numbers
                        \* (a new file arrives with the same ones)
    propsDiff,          \* props.diff: the diff the producer supplied
    fileContents,       \* props.fileContents: <<>> or <<[file, canBeExpanded, newContents]>>
    showSideBySideDiff, \* props.showSideBySideDiff
    hasOnIncludeChanged,\* props.onIncludeChanged !== undefined
    hasOnDiscardChanges,\* props.onDiscardChanges !== undefined
    diff,               \* state.diff: the diff that is rendered
    beforeTokens,       \* state.beforeTokens: <<>> or <<tokens>>
    afterTokens,        \* state.afterTokens
    temporarySelection, \* state.temporarySelection: <<>> or <<[from, to, isSelected]>>
    hoveredHunk,        \* state.hoveredHunk: <<>> or <<hunkStartLine>>
    isSearching,        \* state.isSearching
    searchQuery,        \* state.searchQuery: <<>> or <<query>>
    searchResults,      \* state.searchResults: <<>> or <<SearchResults>>
    selectedSearchResult, \* state.selectedSearchResult: <<>> or <<index>>
    diffToRestore,      \* this.diffToRestore: <<>> or <<diff>>
    mouseUpListener,    \* the one-shot 'mouseup' listener is registered
    inFlight,           \* highlight requests issued that will complete
    included,           \* the include-changed notifications of the last step
    memoized,           \* the slot of the memoized getDiffRows: <<>> or
                        \* <<[inputs, result]>>; the handlers' own calls are
                        \* not followed (they read the rows of the function)
    last                \* the handler that ran last: [op, outcome, args, pre]

vars == <<file, selection, propsDiff, fileContents, showSideBySideDiff,
          hasOnIncludeChanged, hasOnDiscardChanges, diff, beforeTokens, afterTokens,
          temporarySelection, hoveredHunk, isSearching, searchQuery,
          searchResults, selectedSearchResult, diffToRestore,
          mouseUpListener, inFlight, included, memoized, last>>

propsVars == <<file, selection, propsDiff, fileContents, showSideBySideDiff,
               hasOnIncludeChanged, hasOnDiscardChanges>>
searchVars == <<isSearching, searchQuery, searchResults, selectedSearchResult>>
tokenVars == <<beforeTokens, afterTokens>>
dragVars == <<temporarySelection, mouseUpListener, hoveredHunk>>

----------------------------------------------------------------------------
(* Bounds of the model. *)

\* Files the parent can show: ids 1..NumFiles.
NumFiles == 2
\* Highlight requests that may be in flight at once.
MaxInFlight == 1
\* Lines a "short" expansion reveals (the window, scaled down).
ExpansionWindow == 1

Null == 0 - 1

Min(a, b) == IF a < b THEN a ELSE b
Max(a, b) == IF a > b THEN a ELSE b

Str(t) == [text |-> t, pad |-> 0]
StrLength(s) == Len(s.text) + s.pad

MaxLineLengthToCalculateDiff == 240

----------------------------------------------------------------------------
(* The persisted selection (models/diff/diff-selection.ts): the set of     *)
(* diff line numbers that are included.                                    *)

isSelected(sel, n) == n \in sel

RECURSIVE withRangeSelection(_, _, _, _)
withRangeSelection(sel, from, length, selected) ==
    IF length <= 0 THEN sel
    ELSE withRangeSelection(IF selected THEN sel \cup {from} ELSE sel \ {from},
                            from + 1, length - 1, selected)

withLineSelection(sel, n, selected) == withRangeSelection(sel, n, 1, selected)

withSelectNone(sel) == {}

\* canSelect(file): only a working directory change can be selected.
canSelect(f) == f.workingDirectory

----------------------------------------------------------------------------
(* Diffs.  A line is [type, content, oldLineNumber, newLineNumber,         *)
(* originalLineNumber, noTrailingNewLine]; a hunk is [lines, header,       *)
(* unifiedDiffStart, expansionType]; a diff is [text, hunks].              *)

HunkLine(n) ==
    [type |-> "Hunk", content |-> Str(<<"@">>), oldLineNumber |-> Null,
     newLineNumber |-> Null, originalLineNumber |-> n, noTrailingNewLine |-> FALSE]
ContextLine(c, old, new, n) ==
    [type |-> "Context", content |-> c, oldLineNumber |-> old,
     newLineNumber |-> new, originalLineNumber |-> n, noTrailingNewLine |-> FALSE]
DeleteLine(c, old, n) ==
    [type |-> "Delete", content |-> c, oldLineNumber |-> old,
     newLineNumber |-> Null, originalLineNumber |-> n, noTrailingNewLine |-> FALSE]
AddLine(c, new, n) ==
    [type |-> "Add", content |-> c, oldLineNumber |-> Null,
     newLineNumber |-> new, originalLineNumber |-> n, noTrailingNewLine |-> FALSE]

Header(os, oc, ns, nc) ==
    [oldStartLine |-> os, oldLineCount |-> oc, newStartLine |-> ns, newLineCount |-> nc]

\* The post-image of the file each diff text belongs to.
NewContents(text) ==
    IF text = 1
    THEN << Str(<<"b">>), Str(<<"a">>), Str(<<"b">>), Str(<<"B","a">>), Str(<<"a","b">>) >>
    ELSE << Str(<<"b">>), Str(<<"a">>), Str(<<"a">>), Str(<<"a","b">>), Str(<<"b">>) >>

\* Text 1: one hunk in the middle of the file, lines above and below it.
\*   @@ -2,2 +2,3 @@ / " a" / "-ab" / "+b" / "+Ba"
Diff1 ==
    [text |-> 1,
     hunks |-> <<
       [lines |-> << HunkLine(0),
                     ContextLine(Str(<<"a">>), 2, 2, 1),
                     DeleteLine(Str(<<"a","b">>), 3, 2),
                     AddLine(Str(<<"b">>), 3, 3),
                     AddLine(Str(<<"B","a">>), 4, 4) >>,
        header |-> Header(2, 2, 2, 3),
        unifiedDiffStart |-> 0,
        expansionType |-> "Both"] >>]

\* Text 2: two hunks, the first at the top of the file, a gap between them.
\*   @@ -1,1 +1,1 @@ / "-a" / "+b"    @@ -4,1 +4,2 @@ / "+ab" / " b"
Diff2 ==
    [text |-> 2,
     hunks |-> <<
       [lines |-> << HunkLine(0),
                     DeleteLine(Str(<<"a">>), 1, 1),
                     AddLine(Str(<<"b">>), 1, 2) >>,
        header |-> Header(1, 1, 1, 1),
        unifiedDiffStart |-> 0,
        expansionType |-> "Down"],
       [lines |-> << HunkLine(3),
                     AddLine(Str(<<"a","b">>), 4, 4),
                     ContextLine(Str(<<"b">>), 4, 5, 5) >>,
        header |-> Header(4, 1, 4, 2),
        unifiedDiffStart |-> 3,
        expansionType |-> "Up"] >>]

ProducerDiffs == {Diff1, Diff2}

FileIds == 1..NumFiles
\* Odd ids are working directory changes, even ids are committed changes.
Files == {[id |-> i, workingDirectory |-> (i % 2 = 1)] : i \in FileIds}


----------------------------------------------------------------------------
(* Intra-line diff tokens (diff-helpers.ts, getDiffTokens): the span that  *)
(* differs between the two strings, once their common prefix and suffix    *)
(* are set aside.  A line's tokens are a function offset -> [length, token]*)

NoTokens == [o \in {} |-> [length |-> 0, token |-> ""]]
OneToken(offset, length, token) ==
    [o \in {offset} |-> [length |-> length, token |-> token]]

CharAt(s, i) == IF i <= Len(s.text) THEN s.text[i] ELSE "~"

\* The common prefix of the leading characters, from offset n on.
RECURSIVE TextPrefix(_, _, _)
TextPrefix(a, b, n) ==
    IF n < Len(a.text) /\ n < Len(b.text) /\ a.text[n + 1] = b.text[n + 1]
    THEN TextPrefix(a, b, n + 1)
    ELSE n

\* Past the leading characters of both strings there is only filler, the
\* same on both sides: the comparison goes on to the end of the shorter
\* string.  A leading character never equals the filler.
CommonPrefix(a, b, n) ==
    CHOOSE r \in {IF t = Len(a.text) /\ t = Len(b.text)
                  THEN Min(StrLength(a), StrLength(b)) ELSE t :
                     t \in {TextPrefix(a, b, n)}} : TRUE

\* The filler both strings end with, the common prefix of p characters set
\* aside.
FillerSuffix(a, b, p) ==
    Min(Min(a.pad, b.pad), Min(StrLength(a), StrLength(b)) - p)

RECURSIVE CommonSuffix(_, _, _, _)
CommonSuffix(a, b, p, n) ==
    IF /\ p + n < StrLength(a)
       /\ p + n < StrLength(b)
       /\ CharAt(a, StrLength(a) - n) = CharAt(b, StrLength(b) - n)
    THEN CommonSuffix(a, b, p, n + 1)
    ELSE n

\* The tokens for a common prefix of p and a common suffix of s characters.
TokensOfChange(before, after, p, s) ==
    [before |-> IF StrLength(before) - p - s > 0
                THEN OneToken(p, StrLength(before) - p - s, "diff-delete-inner")
                ELSE NoTokens,
     after  |-> IF StrLength(after) - p - s > 0
                THEN OneToken(p, StrLength(after) - p - s, "diff-add-inner")
                ELSE NoTokens]

\* The suffix comparison begins past the common trailing filler.
getDiffTokens(before, after) ==
    CHOOSE t \in UNION {{TokensOfChange(before, after, p, s) :
                            s \in {CommonSuffix(before, after, p,
                                                FillerSuffix(before, after, p))}} :
                        p \in {CommonPrefix(before, after, 0)}} : TRUE

----------------------------------------------------------------------------
(* Row classification: getDiffRows, getDiffRowsFromHunk, getModifiedRows,  *)
(* getDataFromLine.                                                        *)

getDataFromLine(ml, lineToUse, diffTokens) ==
    [content |-> ml.line.content,
     lineNumber |-> IF lineToUse = "oldLineNumber"
                    THEN ml.line.oldLineNumber ELSE ml.line.newLineNumber,
     diffLineNumber |-> ml.line.originalLineNumber,
     noNewLineIndicator |-> ml.line.noTrailingNewLine,
     tokens |-> IF diffTokens # <<>> THEN <<diffTokens[1]>> ELSE <<>>]

\* diffTokensBefore / diffTokensAfter: arrays filled at index i only for the
\* pairs below the length threshold; an array ends at its last filled index.
RECURSIVE TrimHoles(_)
TrimHoles(arr) ==
    IF arr # <<>> /\ arr[Len(arr)] = <<>>
    THEN TrimHoles(SubSeq(arr, 1, Len(arr) - 1))
    ELSE arr

\* A variant that computes the tokens of the first pairs of any run, equal
\* counts or not.
DiffTokenArrayOfAnyRun(addedLines, deletedLines, side) ==
    TrimHoles(
      [i \in 1..Min(Len(addedLines), Len(deletedLines)) |->
         IF /\ StrLength(addedLines[i].line.content) < MaxLineLengthToCalculateDiff
            /\ StrLength(deletedLines[i].line.content) < MaxLineLengthToCalculateDiff
         THEN LET t == getDiffTokens(deletedLines[i].line.content,
                                     addedLines[i].line.content)
              IN  << IF side = "before" THEN t.before ELSE t.after >>
         ELSE <<>>])

\* A variant whose threshold admits a line of MaxLineLengthToCalculateDiff
\* characters.
DiffTokenArrayUpToThreshold(addedLines, deletedLines, side) ==
    IF Len(addedLines) # Len(deletedLines) THEN <<>>
    ELSE TrimHoles(
           [i \in 1..Len(deletedLines) |->
              IF /\ StrLength(addedLines[i].line.content) <= MaxLineLengthToCalculateDiff
                 /\ StrLength(deletedLines[i].line.content) <= MaxLineLengthToCalculateDiff
              THEN LET t == getDiffTokens(deletedLines[i].line.content,
                                          addedLines[i].line.content)
                   IN  << IF side = "before" THEN t.before ELSE t.after >>
              ELSE <<>>])

DiffTokenArray(addedLines, deletedLines, side) ==
    IF Len(addedLines) # Len(deletedLines) THEN <<>>
    ELSE TrimHoles(
           [i \in 1..Len(deletedLines) |->
              IF /\ StrLength(addedLines[i].line.content) < MaxLineLengthToCalculateDiff
                 /\ StrLength(deletedLines[i].line.content) < MaxLineLengthToCalculateDiff
              THEN LET t == getDiffTokens(deletedLines[i].line.content,
                                          addedLines[i].line.content)
                   IN  << IF side = "before" THEN t.before ELSE t.after >>
              ELSE <<>>])

\* A variant whose token arrays have no holes: the k-th call of shift()
\* returns the k-th token that was computed.
ShiftedWithoutHoles(arr, k) ==
    IF k <= Len(SelectSeq(arr, LAMBDA t : t # <<>>))
    THEN SelectSeq(arr, LAMBDA t : t # <<>>)[k]
    ELSE <<>>

\* The k-th call of arr.shift() returns the k-th element, undefined (a hole
\* or past the end) included.
Shifted(arr, k) == IF k <= Len(arr) THEN arr[k] ELSE <<>>

\* Variants of getModifiedRows that pair another number of lines: the rows
\* for a run of which the first `pairs` deleted and added lines are paired.
RowsPairing(addedDeletedLines, pairs) ==
    LET hunkStartLine == addedDeletedLines[1].diffLineNumber
        addedLines == SelectSeq(addedDeletedLines, LAMBDA l : l.line.type = "Add")
        deletedLines == SelectSeq(addedDeletedLines, LAMBDA l : l.line.type = "Delete")
        diffTokensBefore == DiffTokenArray(addedLines, deletedLines, "before")
        diffTokensAfter == DiffTokenArray(addedLines, deletedLines, "after")
    IN  [i \in 1..pairs |->
           [type |-> "Modified",
            beforeData |-> getDataFromLine(deletedLines[i], "oldLineNumber",
                                           Shifted(diffTokensBefore, i)),
            afterData |-> getDataFromLine(addedLines[i], "newLineNumber",
                                          Shifted(diffTokensAfter, i)),
            hunkStartLine |-> hunkStartLine]]
        \o [i \in 1..(Len(deletedLines) - pairs) |->
              [type |-> "Deleted",
               data |-> getDataFromLine(deletedLines[pairs + i], "oldLineNumber",
                                        Shifted(diffTokensBefore, pairs + i)),
               hunkStartLine |-> hunkStartLine]]
        \o [i \in 1..(Len(addedLines) - pairs) |->
              [type |-> "Added",
               data |-> getDataFromLine(addedLines[pairs + i], "newLineNumber",
                                        Shifted(diffTokensAfter, pairs + i)),
               hunkStartLine |-> hunkStartLine]]

AddsIn(addedDeletedLines) ==
    Len(SelectSeq(addedDeletedLines, LAMBDA l : l.line.type = "Add"))
DeletesIn(addedDeletedLines) ==
    Len(SelectSeq(addedDeletedLines, LAMBDA l : l.line.type = "Delete"))

\* Pairs only the runs that have as many added as deleted lines.
getModifiedRowsOfEvenRuns(addedDeletedLines, sideBySide) ==
    IF addedDeletedLines = <<>> THEN <<>>
    ELSE RowsPairing(addedDeletedLines,
                     IF sideBySide /\ AddsIn(addedDeletedLines) = DeletesIn(addedDeletedLines)
                     THEN AddsIn(addedDeletedLines) ELSE 0)

\* Pairs in the unified display too.
getModifiedRowsPairingAlways(addedDeletedLines, sideBySide) ==
    IF addedDeletedLines = <<>> THEN <<>>
    ELSE RowsPairing(addedDeletedLines,
                     Min(AddsIn(addedDeletedLines), DeletesIn(addedDeletedLines)))

getModifiedRows(addedDeletedLines, sideBySide) ==
    IF addedDeletedLines = <<>> THEN <<>>
    ELSE
    LET hunkStartLine == addedDeletedLines[1].diffLineNumber
        addedLines == SelectSeq(addedDeletedLines, LAMBDA l : l.line.type = "Add")
        deletedLines == SelectSeq(addedDeletedLines, LAMBDA l : l.line.type = "Delete")
        diffTokensBefore == DiffTokenArray(addedLines, deletedLines, "before")
        diffTokensAfter == DiffTokenArray(addedLines, deletedLines, "after")
        indexModifiedRow ==
            IF sideBySide THEN Min(Len(addedLines), Len(deletedLines)) ELSE 0
        modified ==
            [i \in 1..indexModifiedRow |->
               [type |-> "Modified",
                beforeData |-> getDataFromLine(deletedLines[i], "oldLineNumber",
                                               Shifted(diffTokensBefore, i)),
                afterData |-> getDataFromLine(addedLines[i], "newLineNumber",
                                              Shifted(diffTokensAfter, i)),
                hunkStartLine |-> hunkStartLine]]
        deleted ==
            [i \in 1..(Len(deletedLines) - indexModifiedRow) |->
               [type |-> "Deleted",
                data |-> getDataFromLine(deletedLines[indexModifiedRow + i], "oldLineNumber",
                                         Shifted(diffTokensBefore, indexModifiedRow + i)),
                hunkStartLine |-> hunkStartLine]]
        added ==
            [i \in 1..(Len(addedLines) - indexModifiedRow) |->
               [type |-> "Added",
                data |-> getDataFromLine(addedLines[indexModifiedRow + i], "newLineNumber",
                                         Shifted(diffTokensAfter, indexModifiedRow + i)),
                hunkStartLine |-> hunkStartLine]]
    IN  modified \o deleted \o added

RECURSIVE RowsFromLines(_, _, _, _, _, _)
RowsFromLines(hunkIndex, hunk, num, modifiedLines, sideBySide, enableDiffExpansion) ==
    IF num >= Len(hunk.lines)
    THEN getModifiedRows(modifiedLines, sideBySide)
    ELSE
    LET line == hunk.lines[num + 1]
        diffLineNumber == hunk.unifiedDiffStart + num
    IN  IF line.type \in {"Delete", "Add"}
        THEN RowsFromLines(hunkIndex, hunk, num + 1,
                           Append(modifiedLines,
                                  [line |-> line, diffLineNumber |-> diffLineNumber]),
                           sideBySide, enableDiffExpansion)
        ELSE getModifiedRows(modifiedLines, sideBySide)
             \o << IF line.type = "Hunk"
                   THEN [type |-> "Hunk",
                         content |-> line.content,
                         expansionType |-> IF enableDiffExpansion
                                           THEN hunk.expansionType ELSE "None",
                         hunkIndex |-> hunkIndex]
                   ELSE [type |-> "Context",
                         content |-> line.content,
                         beforeLineNumber |-> line.oldLineNumber,
                         afterLineNumber |-> line.newLineNumber,
                         beforeTokens |-> <<>>,
                         afterTokens |-> <<>>] >>
             \o RowsFromLines(hunkIndex, hunk, num + 1, <<>>,
                              sideBySide, enableDiffExpansion)

\* A variant that begins after the first line of the hunk.
getDiffRowsFromHunkAfterFirstLine(hunkIndex, hunk, sideBySide, enableDiffExpansion) ==
    RowsFromLines(hunkIndex, hunk, 1, <<>>, sideBySide, enableDiffExpansion)

\* hunkIndex counts from 0, as in the source.
getDiffRowsFromHunk(hunkIndex, hunk, sideBySide, enableDiffExpansion) ==
    RowsFromLines(hunkIndex, hunk, 0, <<>>, sideBySide, enableDiffExpansion)

RECURSIVE RowsOfHunks(_, _, _, _)
RowsOfHunks(hunks, index, sideBySide, enableDiffExpansion) ==
    IF index >= Len(hunks) THEN <<>>
    ELSE getDiffRowsFromHunk(index, hunks[index + 1], sideBySide, enableDiffExpansion)
         \o RowsOfHunks(hunks, index + 1, sideBySide, enableDiffExpansion)

\* The rows of the producer's diffs, computed once.
ProducerRows ==
    [d \in ProducerDiffs, sideBySide \in BOOLEAN, enableDiffExpansion \in BOOLEAN |->
        RowsOfHunks(d.hunks, 0, sideBySide, enableDiffExpansion)]

getDiffRows(d, sideBySide, enableDiffExpansion) ==
    IF d \in ProducerDiffs
    THEN ProducerRows[d, sideBySide, enableDiffExpansion]
    ELSE RowsOfHunks(d.hunks, 0, sideBySide, enableDiffExpansion)

\* rows[rowNumber], rows counted from 0: <<>> when there is no such row.
\* (Values that are used more than once are bound by a quantifier, here and
\* below, so that they are written and evaluated once.)
RowAt(rows, rowNumber) ==
    CHOOSE r \in {IF rowNumber >= 0 /\ rowNumber < Len(x)
                  THEN <<x[rowNumber + 1]>> ELSE <<>> : x \in {rows}} : TRUE

----------------------------------------------------------------------------
(* Search: SearchResults, calcSearchTokens, enumerateColumnContents.       *)

Lower(c) == IF c = "A" THEN "a" ELSE IF c = "B" THEN "b" ELSE c

\* The 'gi' literal pattern matches at (0-based) offset o of the content.
MatchesAt(content, query, o) ==
    /\ o + Len(query) <= Len(content.text)
    /\ \A k \in 1..Len(query) : Lower(content.text[o + k]) = Lower(query[k])

\* String.prototype.matchAll: successive matches, each scan resuming after
\* the end of the previous match.
RECURSIVE matchAll(_, _, _)
matchAll(content, query, o) ==
    IF o + Len(query) > Len(content.text) THEN <<>>
    ELSE IF MatchesAt(content, query, o)
         THEN <<[index |-> o, length |-> Len(query)]>>
              \o matchAll(content, query, o + Len(query))
         ELSE matchAll(content, query, o + 1)

\* A variant that yields both columns of a context row in either display.
enumerateBothColumnsOfContext(row, sideBySide) ==
    CASE row.type = "Hunk" -> << [type |-> "before", content |-> row.content] >>
      [] row.type = "Added" ->
            << [type |-> IF sideBySide THEN "after" ELSE "before",
                content |-> row.data.content] >>
      [] row.type = "Deleted" -> << [type |-> "before", content |-> row.data.content] >>
      [] row.type = "Context" ->
            << [type |-> "before", content |-> row.content],
               [type |-> "after", content |-> row.content] >>
      [] row.type = "Modified" ->
            << [type |-> "before", content |-> row.beforeData.content],
               [type |-> "after", content |-> row.afterData.content] >>

enumerateColumnContents(row, sideBySide) ==
    CASE row.type = "Hunk" -> << [type |-> "before", content |-> row.content] >>
      [] row.type = "Added" ->
            << [type |-> IF sideBySide THEN "after" ELSE "before",
                content |-> row.data.content] >>
      [] row.type = "Deleted" -> << [type |-> "before", content |-> row.data.content] >>
      [] row.type = "Context" ->
            << [type |-> "before", content |-> row.content] >>
            \o (IF sideBySide
                THEN << [type |-> "after", content |-> row.content] >> ELSE <<>>)
      [] row.type = "Modified" ->
            << [type |-> "before", content |-> row.beforeData.content],
               [type |-> "after", content |-> row.afterData.content] >>

\* SearchResults: [hits, lookup]; lookup maps the key <<row, column>> to the
\* line tokens of that cell.
EmptySearchResults == [hits |-> <<>>, lookup |-> [k \in {} |-> NoTokens]]

\* A variant that puts each new hit in front of the list (unshift).
SearchResultsAddInFront(results, row, column, offset, length) ==
    LET key == <<row, column>>
        token == OneToken(offset, length, "search-result")
        existing == IF key \in DOMAIN results.lookup
                    THEN results.lookup[key] ELSE NoTokens
    IN  [hits |-> <<[row |-> row, column |-> column,
                     offset |-> offset, length |-> length]>> \o results.hits,
         lookup |-> (key :> (token @@ existing)) @@ results.lookup]

SearchResultsAdd(results, row, column, offset, length) ==
    LET key == <<row, column>>
        token == OneToken(offset, length, "search-result")
        existing == IF key \in DOMAIN results.lookup
                    THEN results.lookup[key] ELSE NoTokens
    IN  [hits |-> Append(results.hits,
                         [row |-> row, column |-> column,
                          offset |-> offset, length |-> length]),
         lookup |-> (key :> (token @@ existing)) @@ results.lookup]

SearchResultsLength(results) == Len(results.hits)

\* get(index): <<>> when there is no such hit.
SearchResultsGet(results, index) ==
    IF index >= 0 /\ index < Len(results.hits) THEN <<results.hits[index + 1]>> ELSE <<>>

getLineTokens(results, row, column) ==
    IF <<row, column>> \in DOMAIN results.lookup
    THEN <<results.lookup[<<row, column>>]>> ELSE <<>>

RECURSIVE AddMatches(_, _, _, _)
AddMatches(results, rowNumber, column, matches) ==
    IF matches = <<>> THEN results
    ELSE AddMatches(SearchResultsAdd(results, rowNumber, column,
                                     matches[1].index, matches[1].length),
                    rowNumber, column, Tail(matches))

RECURSIVE AddColumns(_, _, _, _)
AddColumns(results, rowNumber, columns, query) ==
    IF columns = <<>> THEN results
    ELSE AddColumns(AddMatches(results, rowNumber, columns[1].type,
                               matchAll(columns[1].content, query, 0)),
                    rowNumber, Tail(columns), query)

RECURSIVE AddRows(_, _, _, _, _)
AddRows(results, rows, rowNumber, sideBySide, query) ==
    IF rowNumber >= Len(rows) THEN results
    ELSE AddRows(IF rows[rowNumber + 1].type = "Hunk" THEN results
                 ELSE AddColumns(results, rowNumber,
                                 enumerateColumnContents(rows[rowNumber + 1], sideBySide),
                                 query),
                 rows, rowNumber + 1, sideBySide, query)

\* <<>> for an empty query, else <<SearchResults>>.
calcSearchTokens(d, sideBySide, query, enableDiffExpansion) ==
    IF Len(query) = 0 THEN <<>>
    ELSE << AddRows(EmptySearchResults,
                    getDiffRows(d, sideBySide, enableDiffExpansion),
                    0, sideBySide, query) >>

----------------------------------------------------------------------------
(* Selection queries: isInTemporarySelection, isInSelection.               *)

\* A variant that takes the drag's rows in the order they were visited.
isInTemporarySelectionInOrder(row, column, sel) ==
    IF sel = <<>> THEN FALSE
    ELSE /\ row >= sel[1].from.row
         /\ row <= sel[1].to.row
         /\ (column = sel[1].from.column \/ column = sel[1].to.column)

\* A variant that looks at the column the drag started in only.
isInTemporarySelectionAtStartColumn(row, column, sel) ==
    IF sel = <<>> THEN FALSE
    ELSE /\ row >= Min(sel[1].from.row, sel[1].to.row)
         /\ row <= Max(sel[1].to.row, sel[1].from.row)
         /\ column = sel[1].from.column

isInTemporarySelection(row, column, sel) ==
    IF sel = <<>> THEN FALSE
    ELSE /\ row >= Min(sel[1].from.row, sel[1].to.row)
         /\ row <= Max(sel[1].to.row, sel[1].from.row)
         /\ (column = sel[1].from.column \/ column = sel[1].to.column)

\* storedSelection is getSelection(): <<>> for a file that cannot be selected.
isInSelection(diffLineNumber, row, column, storedSelection, tmpSelection) ==
    LET isInStoredSelection ==
            IF storedSelection = <<>> THEN FALSE
            ELSE isSelected(storedSelection[1], diffLineNumber)
        isInTemporary == isInTemporarySelection(row, column, tmpSelection)
    IN  IF tmpSelection = <<>> THEN isInStoredSelection
        ELSE IF tmpSelection[1].isSelected
             THEN isInStoredSelection \/ isInTemporary
             ELSE isInStoredSelection /\ ~isInTemporary

----------------------------------------------------------------------------
(* Hunk expansion (text-diff-expansion.ts): expandTextDiffHunk and         *)
(* expandWholeTextDiff pull context lines out of the post-image and give   *)
(* back <<newDiff>>, or <<>> for "no update".                              *)

NewEnd(h) == h.header.newStartLine + h.header.newLineCount - 1
OldEnd(h) == h.header.oldStartLine + h.header.oldLineCount - 1

\* Lines of the post-image between hunk i and the hunk (or file start) above.
AvailUp(hunks, i) ==
    hunks[i].header.newStartLine - 1 - (IF i > 1 THEN NewEnd(hunks[i - 1]) ELSE 0)

\* Lines of the post-image between hunk i and the hunk (or file end) below.
AvailDown(hunks, i, newContentLines) ==
    Max(0, (IF i < Len(hunks) THEN hunks[i + 1].header.newStartLine - 1
            ELSE Len(newContentLines)) - NewEnd(hunks[i]))

ExpansionTypeOf(hunks, i, newContentLines) ==
    LET up == AvailUp(hunks, i) > 0
        down == AvailDown(hunks, i, newContentLines) > 0
    IN  IF up /\ down THEN "Both"
        ELSE IF up THEN "Up" ELSE IF down THEN "Down" ELSE "None"

ContentLine(newContentLines, n) ==
    IF n >= 1 /\ n <= Len(newContentLines) THEN newContentLines[n] ELSE Str(<<>>)

\* Hunk h with `up` context lines added above and `down` below.
ExpandedHunk(h, up, down, newContentLines) ==
    LET ns == h.header.newStartLine
        os == h.header.oldStartLine
        upLines == [k \in 1..up |->
                      ContextLine(ContentLine(newContentLines, ns - up + k - 1),
                                  os - up + k - 1, ns - up + k - 1, Null)]
        downLines == [k \in 1..down |->
                        ContextLine(ContentLine(newContentLines, NewEnd(h) + k),
                                    OldEnd(h) + k, NewEnd(h) + k, Null)]
    IN  [h EXCEPT !.lines = <<h.lines[1]>> \o upLines \o Tail(h.lines) \o downLines,
                  !.header = Header(os - up, h.header.oldLineCount + up + down,
                                    ns - up, h.header.newLineCount + up + down)]

RECURSIVE LinesBefore(_, _)
LinesBefore(hunks, i) ==
    IF i <= 1 THEN 0 ELSE LinesBefore(hunks, i - 1) + Len(hunks[i - 1].lines)

\* Starting offsets and expansion capabilities recomputed after a splice.
Renumbered(hunks, newContentLines) ==
    [i \in 1..Len(hunks) |->
       [hunks[i] EXCEPT !.unifiedDiffStart = LinesBefore(hunks, i),
                        !.expansionType = ExpansionTypeOf(hunks, i, newContentLines)]]

\* hunkIndex counts from 0; kind is "short" or "all".
expandTextDiffHunk(d, hunkIndex, kind, newContentLines) ==
    LET i == hunkIndex + 1
        h == d.hunks[i]
        want(avail) == IF kind = "short" THEN Min(ExpansionWindow, avail) ELSE avail
        up == IF h.expansionType \in {"Up", "Both"}
              THEN want(AvailUp(d.hunks, i)) ELSE 0
        down == IF h.expansionType \in {"Down", "Both"}
                THEN want(AvailDown(d.hunks, i, newContentLines)) ELSE 0
    IN  IF up + down = 0 THEN <<>>
        ELSE << [d EXCEPT !.hunks =
                   Renumbered([d.hunks EXCEPT ![i] =
                                 ExpandedHunk(h, up, down, newContentLines)],
                              newContentLines)] >>

RECURSIVE ExpandEveryHunk(_, _, _)
ExpandEveryHunk(hunks, i, newContentLines) ==
    IF i > Len(hunks) THEN hunks
    ELSE ExpandEveryHunk(
           [hunks EXCEPT ![i] = ExpandedHunk(hunks[i], AvailUp(hunks, i),
                                             AvailDown(hunks, i, newContentLines),
                                             newContentLines)],
           i + 1, newContentLines)

expandWholeTextDiff(d, newContentLines) ==
    LET hunks == Renumbered(ExpandEveryHunk(d.hunks, 1, newContentLines),
                            newContentLines)
    IN  IF hunks = d.hunks THEN <<>> ELSE << [d EXCEPT !.hunks = hunks] >>

----------------------------------------------------------------------------
(* The component: helpers that read props and state.                       *)

\* A variant that does not look at the eligibility flag.
canExpandDiffWhateverTheFlag ==
    /\ fileContents # <<>>
    /\ Len(fileContents[1].newContents) > 0

canExpandDiff ==
    /\ fileContents # <<>>
    /\ fileContents[1].canBeExpanded
    /\ Len(fileContents[1].newContents) > 0

getSelection == IF canSelect(file) THEN <<selection>> ELSE <<>>

\* The rows on screen.
Rows == getDiffRows(diff, showSideBySideDiff, canExpandDiff)

\* The diff line number of row (<<>> or <<r>>) in a column; Null when there
\* is none.
DiffLineNumberOf(row, column) ==
    IF row = <<>> THEN Null
    ELSE IF row[1].type \in {"Added", "Deleted"} THEN row[1].data.diffLineNumber
    ELSE IF row[1].type = "Modified"
         THEN IF column = "after" THEN row[1].afterData.diffLineNumber
              ELSE row[1].beforeData.diffLineNumber
    ELSE Null

getDiffLineNumber(rowNumber, column) ==
    CHOOSE n \in {DiffLineNumberOf(row, column) : row \in {RowAt(Rows, rowNumber)}} : TRUE

Last(op, outcome, args, pre) ==
    [op |-> op, outcome |-> outcome, args |-> args, pre |-> pre]

----------------------------------------------------------------------------
(* Syntax highlighting: highlightParametersEqual, initDiffSyntaxMode.      *)

\* The props and the state a request captures, and the ones it is compared
\* with when it completes.
PropsSnapshot(f, sideBySide, contents) ==
    [fileId |-> f.id, showSideBySideDiff |-> sideBySide,
     contentsFileId |-> IF contents = <<>> THEN <<>> ELSE <<contents[1].file>>]
StateSnapshot(d) == [text |-> d.text]

\* A variant that does not compare the diff text.
highlightParametersEqualButText(newProps, prevProps, newState, prevState) ==
    /\ \/ newProps = prevProps
       \/ /\ newProps.fileId = prevProps.fileId
          /\ newProps.showSideBySideDiff = prevProps.showSideBySideDiff
    /\ prevProps.contentsFileId = newProps.contentsFileId

\* newProps === prevProps implies the two field comparisons next to it.
highlightParametersEqual(newProps, prevProps, newState, prevState) ==
    /\ \/ newProps = prevProps
       \/ /\ newProps.fileId = prevProps.fileId
          /\ newProps.showSideBySideDiff = prevProps.showSideBySideDiff
    /\ newState.text = prevState.text
    /\ prevProps.contentsFileId = newProps.contentsFileId

\* A request in flight: the snapshots taken before the await.
Request(props, state) == [propsSnapshot |-> props, stateSnapshot |-> state]

CurrentProps == PropsSnapshot(file, showSideBySideDiff, fileContents)
CurrentState == StateSnapshot(diff)

\* initDiffSyntaxMode up to its await: the request issued, if any, for the
\* props `props` and the state diff `d`.
initDiffSyntaxMode(props, d) ==
    IF props.contentsFileId = <<>> THEN {}
    ELSE {Request(props, StateSnapshot(d))}

\* A variant that compares the props only, not the text of the state diff.
RequestsOnUpdateOfProps(newProps, prevProps, newDiff, prevDiff) ==
    IF ~highlightParametersEqual(newProps, prevProps,
                                 StateSnapshot(newDiff), StateSnapshot(newDiff))
    THEN initDiffSyntaxMode(newProps, newDiff)
    ELSE {}

\* componentDidUpdate's first branch: the requests issued when the props go
\* from prevProps to newProps and the state diff from prevDiff to newDiff.
RequestsOnUpdate(newProps, prevProps, newDiff, prevDiff) ==
    IF ~highlightParametersEqual(newProps, prevProps,
                                 StateSnapshot(newDiff), StateSnapshot(prevDiff))
    THEN initDiffSyntaxMode(newProps, newDiff)
    ELSE {}

\* The lines of a file.
FileLines == 1..Len(NewContents(1))

\* What highlightContents (syntax-highlighting.ts) resolves to for request r:
\* the tokens of one side of the contents r was issued for, on the lines of
\* the diff r was issued for; `lines` are the lines the table has an entry
\* for (here all of them).
highlightContents(r, side) ==
    [side |-> side, contents |-> r.propsSnapshot.contentsFileId[1],
     text |-> r.stateSnapshot.text, lines |-> FileLines]

\* The rest of initDiffSyntaxMode, once highlightContents has resolved.
HighlightCompleted(r) ==
    /\ r \in inFlight
    /\ inFlight' = inFlight \ {r}
    /\ IF ~highlightParametersEqual(CurrentProps, r.propsSnapshot,
                                   CurrentState, r.stateSnapshot)
       THEN /\ UNCHANGED tokenVars
            /\ last' = Last("highlightCompleted", "discarded", <<>>, <<>>)
       ELSE /\ beforeTokens' = <<highlightContents(r, "oldTokens")>>
            /\ afterTokens' = <<highlightContents(r, "newTokens")>>
            /\ last' = Last("highlightCompleted", "applied", <<>>, <<>>)
    /\ included' = <<>>
    /\ UNCHANGED memoized
    /\ UNCHANGED <<propsVars, diff, dragVars, searchVars, diffToRestore>>

----------------------------------------------------------------------------
(* New props from the parent, followed by componentDidUpdate.              *)

\* componentDidUpdate(prevProps, prevState) after the props became
\* (f, d, contents, sideBySide): a highlight request when the parameters
\* changed; on a new diff text, the restore slot emptied and the state diff
\* replaced, which runs componentDidUpdate once more.
\* highlightContents may never resolve: `resolves` says which of the (at
\* most two) requests of this step will, and only those are kept in inFlight.
ReceiveProps(f, d, contents, sideBySide, resolves, op) ==
    LET newProps == PropsSnapshot(f, sideBySide, contents)
        textChanged == d.text # propsDiff.text
        newDiff == IF textChanged THEN d ELSE diff
        first == RequestsOnUpdate(newProps, CurrentProps, diff, diff)
        second == IF textChanged
                  THEN RequestsOnUpdate(newProps, newProps, newDiff, diff)
                  ELSE {}
        issued == (IF 1 \in resolves THEN first ELSE {})
                  \cup (IF 2 \in resolves THEN second ELSE {})
    IN  /\ Cardinality(inFlight \cup issued) <= MaxInFlight
        /\ 1 \in resolves => first # {}
        /\ 2 \in resolves => second # {}
        /\ file' = f
        /\ propsDiff' = d
        /\ fileContents' = contents
        /\ showSideBySideDiff' = sideBySide
        /\ diff' = newDiff
        /\ diffToRestore' = IF textChanged THEN <<>> ELSE diffToRestore
        /\ inFlight' = inFlight \cup issued
        /\ included' = <<>>
        /\ UNCHANGED memoized
        /\ last' = Last(op, IF textChanged THEN "reset" ELSE "kept", <<>>, <<>>)
        /\ UNCHANGED <<selection, hasOnIncludeChanged, hasOnDiscardChanges, tokenVars, dragVars, searchVars>>

\* The user picks another file, or the file's diff changes.
SwitchFile(f, d, resolves) ==
    /\ f \in Files
    /\ d \in ProducerDiffs
    /\ <<f, d>> # <<file, propsDiff>>
    /\ ReceiveProps(f, d, fileContents, showSideBySideDiff, resolves, "switchFile")

\* The contents provider delivers (or withdraws) the file contents.
FileContentsFor(id, eligible, lines) ==
    <<[file |-> id, canBeExpanded |-> eligible, newContents |-> lines]>>

ContentsChoices ==
    {<<>>}
    \cup {FileContentsFor(file.id, TRUE, NewContents(propsDiff.text)),
          FileContentsFor(file.id, FALSE, NewContents(propsDiff.text)),
          FileContentsFor(file.id, TRUE, <<>>)}

ReceiveFileContents(contents, resolves) ==
    /\ contents \in ContentsChoices
    /\ contents # fileContents
    /\ ReceiveProps(file, propsDiff, contents, showSideBySideDiff, resolves,
                    "receiveFileContents")

ToggleSideBySide(resolves) ==
    ReceiveProps(file, propsDiff, fileContents, ~showSideBySideDiff, resolves,
                 "toggleSideBySide")

----------------------------------------------------------------------------
(* Drag selection: onStartSelection, onUpdateSelection, onEndSelection.    *)

Columns == {"before", "after"}

\* The row component offers the pointer handlers on the cells of a
\* selectable file that carry a diff line number.
SelectableCell(row, column) ==
    /\ canSelect(file)
    /\ \E r \in {RowAt(Rows, row)} :
          /\ r # <<>>
          /\ \/ r[1].type = "Modified"
             \/ r[1].type = "Deleted" /\ column = "before"
             \/ r[1].type = "Added"
                /\ column = (IF showSideBySideDiff THEN "after" ELSE "before")
          /\ DiffLineNumberOf(r, column) # Null

RowNumbers == 0..(Len(Rows) - 1)

\* data.isSelected of a rendered cell (getRowDataPopulated).
RenderedIsSelected(row, column) ==
    \E n \in {getDiffLineNumber(row, column)} :
        /\ n # Null
        /\ isInSelection(n, row, column, getSelection, temporarySelection)

onStartSelection(row, column, selected) ==
    /\ temporarySelection' =
         <<[from |-> [row |-> row, column |-> column],
            to |-> [row |-> row, column |-> column],
            isSelected |-> selected]>>
    /\ mouseUpListener' = TRUE
    /\ included' = <<>>
    /\ UNCHANGED memoized
    /\ last' = Last("onStartSelection", "started", <<>>, <<>>)
    /\ UNCHANGED <<propsVars, diff, tokenVars, hoveredHunk, searchVars,
                   diffToRestore, inFlight>>

\* Pointer-down on a selectable cell: the drag applies the opposite of the
\* cell's current state.
PointerDown(row, column) ==
    /\ row \in RowNumbers
    /\ SelectableCell(row, column)
    /\ onStartSelection(row, column, ~RenderedIsSelected(row, column))

\* A variant that keeps the start point above the end point.
onUpdateSelectionOrderingPoints(row, column) ==
    /\ IF temporarySelection = <<>>
       THEN /\ UNCHANGED temporarySelection
            /\ last' = Last("onUpdateSelection", "ignored", <<>>, <<>>)
       ELSE /\ temporarySelection' =
                 <<[temporarySelection[1] EXCEPT
                      !.from = IF row < @.row THEN [row |-> row, column |-> column]
                               ELSE @,
                      !.to = IF row < temporarySelection[1].from.row
                             THEN temporarySelection[1].from
                             ELSE [row |-> row, column |-> column]]>>
            /\ last' = Last("onUpdateSelection", "moved", <<>>, <<>>)
    /\ included' = <<>>
    /\ UNCHANGED memoized
    /\ UNCHANGED <<propsVars, diff, tokenVars, mouseUpListener, hoveredHunk,
                   searchVars, diffToRestore, inFlight>>

onUpdateSelection(row, column) ==
    /\ IF temporarySelection = <<>>
       THEN /\ UNCHANGED temporarySelection
            /\ last' = Last("onUpdateSelection", "ignored", <<>>, <<>>)
       ELSE /\ temporarySelection' =
                 <<[temporarySelection[1] EXCEPT !.to = [row |-> row, column |-> column]]>>
            /\ last' = Last("onUpdateSelection", "moved", <<>>, <<>>)
    /\ included' = <<>>
    /\ UNCHANGED memoized
    /\ UNCHANGED <<propsVars, diff, tokenVars, mouseUpListener, hoveredHunk,
                   searchVars, diffToRestore, inFlight>>

PointerMove(row, column) ==
    /\ row \in RowNumbers
    /\ SelectableCell(row, column)
    /\ onUpdateSelection(row, column)

\* The loop of onEndSelection over the rows fromRow..toRow.
\* A variant that includes the line whatever the drag's boolean.
SelectLineAlways(sel, line, selected) ==
    CHOOSE s \in {IF n # Null THEN withLineSelection(x, n, TRUE) ELSE x :
                    x \in {sel}, n \in {line}} : TRUE

\* if (line !== null) { selection = selection.withLineSelection(...) }
SelectLine(sel, line, selected) ==
    CHOOSE s \in {IF n # Null THEN withLineSelection(x, n, selected) ELSE x :
                    x \in {sel}, n \in {line}} : TRUE

RECURSIVE SelectRows(_, _, _, _, _, _)
SelectRows(sel, row, toRow, fromColumn, toColumn, selected) ==
    IF row > toRow THEN sel
    ELSE SelectRows(SelectLine(SelectLine(sel, getDiffLineNumber(row, fromColumn),
                                          selected),
                               getDiffLineNumber(row, toColumn), selected),
                    row + 1, toRow, fromColumn, toColumn, selected)

\* The 'mouseup' listener registered with { once: true }.
onEndSelection ==
    /\ mouseUpListener
    /\ mouseUpListener' = FALSE
    /\ IF getSelection = <<>> \/ temporarySelection = <<>>
       THEN /\ UNCHANGED <<selection, temporarySelection>>
            /\ included' = <<>>
            /\ UNCHANGED memoized
            /\ last' = Last("onEndSelection", "returned", <<>>, <<>>)
       ELSE LET tmp == temporarySelection[1]
                newSelection ==
                    SelectRows(getSelection[1],
                               Min(tmp.from.row, tmp.to.row),
                               Max(tmp.from.row, tmp.to.row),
                               tmp.from.column, tmp.to.column, tmp.isSelected)
            IN  /\ included' = IF hasOnIncludeChanged THEN <<newSelection>> ELSE <<>>
                /\ UNCHANGED memoized
                /\ selection' = IF hasOnIncludeChanged THEN newSelection ELSE selection
                /\ temporarySelection' = <<>>
                /\ last' = Last("onEndSelection", "committed", <<>>, <<>>)
    /\ UNCHANGED <<file, propsDiff, fileContents, showSideBySideDiff,
                   hasOnIncludeChanged, hasOnDiscardChanges, diff, tokenVars, hoveredHunk, searchVars,
                   diffToRestore, inFlight>>

----------------------------------------------------------------------------
(* Hover of a hunk group: onMouseEnterHunk, onMouseLeaveHunk.              *)

onMouseEnterHunk(hunkStartLine) ==
    /\ IF temporarySelection = <<>>
       THEN /\ hoveredHunk' = <<hunkStartLine>>
            /\ last' = Last("onMouseEnterHunk", "hovered", <<hunkStartLine>>, <<>>)
       ELSE /\ UNCHANGED hoveredHunk
            /\ last' = Last("onMouseEnterHunk", "ignored", <<hunkStartLine>>, <<>>)
    /\ included' = <<>>
    /\ UNCHANGED memoized
    /\ UNCHANGED <<propsVars, diff, tokenVars, temporarySelection, mouseUpListener,
                   searchVars, diffToRestore, inFlight>>

onMouseLeaveHunk ==
    /\ hoveredHunk' = <<>>
    /\ included' = <<>>
    /\ UNCHANGED memoized
    /\ last' = Last("onMouseLeaveHunk", "left", <<>>, <<>>)
    /\ UNCHANGED <<propsVars, diff, tokenVars, temporarySelection, mouseUpListener,
                   searchVars, diffToRestore, inFlight>>

\* The hunk groups on screen: the row component offers the hunk handle on
\* the rows that carry a hunkStartLine.
HunkStartLines ==
    UNION {{rows[k].hunkStartLine :
              k \in {j \in 1..Len(rows) :
                       rows[j].type \in {"Modified", "Added", "Deleted"}}} :
           rows \in {Rows}}

----------------------------------------------------------------------------
(* The hunk handle: findInteractiveOriginalDiffRange (diff-explorer.ts),   *)
(* onClickHunk.                                                            *)

isIncludeableLine(line) == line.type \in {"Add", "Delete"}

\* diffHunkForIndex: the place in hunks of the hunk that holds the diff
\* line `index`, 0 when there is none.
diffHunkForIndex(hunks, index) ==
    IF \E i \in 1..Len(hunks) :
          /\ index >= hunks[i].unifiedDiffStart
          /\ index <= hunks[i].unifiedDiffStart + Len(hunks[i].lines) - 1
    THEN CHOOSE i \in 1..Len(hunks) :
          /\ index >= hunks[i].unifiedDiffStart
          /\ index <= hunks[i].unifiedDiffStart + Len(hunks[i].lines) - 1
    ELSE 0

\* findInteractiveDiffRange: the diff lines around `index` up to the
\* nearest line above and below that cannot be included; <<>> without hunk.
findInteractiveDiffRange(hunks, index) ==
    IF diffHunkForIndex(hunks, index) = 0 THEN <<>>
    ELSE LET hunk == hunks[diffHunkForIndex(hunks, index)]
             relativeIndex == index - hunk.unifiedDiffStart
             above == {i \in 0..(relativeIndex - 1) : ~isIncludeableLine(hunk.lines[i + 1])}
             below == {i \in (relativeIndex + 1)..(Len(hunk.lines) - 1) :
                         ~isIncludeableLine(hunk.lines[i + 1])}
         IN  <<[from |-> IF above # {}
                         THEN hunk.unifiedDiffStart
                              + (CHOOSE i \in above : \A j \in above : j <= i) + 1
                         ELSE hunk.unifiedDiffStart + 1,
                to |-> IF below # {}
                       THEN hunk.unifiedDiffStart
                            + (CHOOSE i \in below : \A j \in below : j >= i) - 1
                       ELSE hunk.unifiedDiffStart + Len(hunk.lines) - 1]>>

\* getLineInOriginalDiff: the number the diff line has in the producer's
\* diff, Null for a line that expansion added.
getLineInOriginalDiff(hunks, index) ==
    IF diffHunkForIndex(hunks, index) = 0 THEN Null
    ELSE hunks[diffHunkForIndex(hunks, index)]
           .lines[index - hunks[diffHunkForIndex(hunks, index)].unifiedDiffStart + 1]
           .originalLineNumber

\* <<>> or <<[from, to]>> in the line numbers of the producer's diff.
findInteractiveOriginalDiffRange(hunks, index) ==
    CHOOSE r \in {IF range = <<>> THEN <<>>
                  ELSE IF \/ getLineInOriginalDiff(hunks, range[1].from) = Null
                          \/ getLineInOriginalDiff(hunks, range[1].to) = Null
                       THEN <<>>
                       ELSE <<[from |-> getLineInOriginalDiff(hunks, range[1].from),
                               to |-> getLineInOriginalDiff(hunks, range[1].to)]>> :
                     range \in {findInteractiveDiffRange(hunks, index)}} : TRUE

\* onClickHunk with the length of the range and the boolean passed on to
\* withRangeSelection given by `lengthOf` and `selectOf`.
onClickHunkWith(hunkStartLine, select, lengthOf(_), selectOf(_, _, _)) ==
    /\ \E range \in {findInteractiveOriginalDiffRange(diff.hunks, hunkStartLine)} :
          IF hasOnIncludeChanged /\ getSelection # <<>> /\ range # <<>>
          THEN \E sel \in {withRangeSelection(getSelection[1], range[1].from,
                                              lengthOf(range[1]),
                                              selectOf(select, getSelection[1], range[1]))} :
                  /\ included' = <<sel>>
                  /\ selection' = sel
                  /\ last' = Last("onClickHunk", "notified", <<hunkStartLine, select>>,
                                  <<selection>>)
          ELSE /\ included' = <<>>
               /\ UNCHANGED selection
               /\ last' = Last("onClickHunk", "returned", <<hunkStartLine, select>>,
                               <<selection>>)
    /\ UNCHANGED memoized
    /\ UNCHANGED <<file, propsDiff, fileContents, showSideBySideDiff,
                   hasOnIncludeChanged, hasOnDiscardChanges, diff, tokenVars, dragVars, searchVars,
                   diffToRestore, inFlight>>

RangeLength(range) == range.to - range.from + 1
SelectAsAsked(select, sel, range) == select

\* A variant that leaves the last line of the range out.
RangeLessOne(range) == range.to - range.from
onClickHunkShortRange(hunkStartLine, select) ==
    onClickHunkWith(hunkStartLine, select, RangeLessOne, SelectAsAsked)

\* A variant that deselects a range whose first line is included already.
SelectToggling(select, sel, range) == select /\ ~isSelected(sel, range.from)
onClickHunkToggling(hunkStartLine, select) ==
    onClickHunkWith(hunkStartLine, select, RangeLength, SelectToggling)

onClickHunk(hunkStartLine, select) ==
    onClickHunkWith(hunkStartLine, select, RangeLength, SelectAsAsked)

----------------------------------------------------------------------------
(* Discard: onDiscardChanges, run by the items of the context menus.       *)

\* onDiscardChanges handing `diffOf` to the callback.  The outcome is the
\* request made of the parent: <<>> or <<[diff, selection]>>.
onDiscardChangesWith(startLine, endLine, diffOf) ==
    /\ IF getSelection = <<>> \/ ~hasOnDiscardChanges
       THEN last' = Last("onDiscardChanges", <<>>, <<startLine, endLine>>, <<>>)
       ELSE last' = Last("onDiscardChanges",
                         <<[diff |-> diffOf,
                            selection |->
                               withRangeSelection(withSelectNone(getSelection[1]),
                                                  startLine, endLine - startLine + 1,
                                                  TRUE)]>>,
                         <<startLine, endLine>>, <<>>)
    /\ included' = <<>>
    /\ UNCHANGED memoized
    /\ UNCHANGED <<propsVars, diff, tokenVars, dragVars, searchVars,
                   diffToRestore, inFlight>>

\* A variant that hands over the diff that is rendered.
onDiscardChangesOfRenderedDiff(startLine, endLine) ==
    onDiscardChangesWith(startLine, endLine, diff)

onDiscardChanges(startLine, endLine) ==
    onDiscardChangesWith(startLine, endLine, propsDiff)

----------------------------------------------------------------------------
(* Expansion: onExpandHunk, expandHunk, onExpandWholeFile,                 *)
(* onCollapseExpandedLines.  The two menu actions are not guarded by the   *)
(* handlers themselves: the item of a context menu that is already open    *)
(* can be clicked after the state it was built from has changed.           *)

Resolving == SUBSET {1, 2}

ExpansionKinds == {"short", "all"}

\* setState({ diff: d }) and the componentDidUpdate that follows it.
SetStateDiff(d) ==
    /\ diff' = d
    /\ inFlight' = inFlight \cup RequestsOnUpdate(CurrentProps, CurrentProps, d, diff)

\* A variant that also keeps the diff it replaces in the restore slot.
expandHunkSavingDiff(hunkIndex, kind) ==
    IF fileContents = <<>> \/ ~canExpandDiff
    THEN /\ UNCHANGED <<diff, inFlight, diffToRestore>>
         /\ last' = Last("onExpandHunk", "denied", <<hunkIndex, kind>>, <<>>)
    ELSE LET updatedDiff == expandTextDiffHunk(diff, hunkIndex, kind,
                                               fileContents[1].newContents)
         IN  IF updatedDiff = <<>>
             THEN /\ UNCHANGED <<diff, inFlight, diffToRestore>>
                  /\ last' = Last("onExpandHunk", "noUpdate", <<hunkIndex, kind>>, <<>>)
             ELSE /\ SetStateDiff(updatedDiff[1])
                  /\ diffToRestore' = <<diff>>
                  /\ last' = Last("onExpandHunk", "updated", <<hunkIndex, kind>>, <<diff>>)

\* expandHunk(diff.hunks[hunkIndex], kind)
expandHunk(hunkIndex, kind) ==
    IF fileContents = <<>> \/ ~canExpandDiff
    THEN /\ UNCHANGED <<diff, inFlight, diffToRestore>>
         /\ last' = Last("onExpandHunk", "denied", <<hunkIndex, kind>>, <<>>)
    ELSE LET updatedDiff == expandTextDiffHunk(diff, hunkIndex, kind,
                                               fileContents[1].newContents)
         IN  IF updatedDiff = <<>>
             THEN /\ UNCHANGED <<diff, inFlight, diffToRestore>>
                  /\ last' = Last("onExpandHunk", "noUpdate", <<hunkIndex, kind>>, <<>>)
             ELSE /\ SetStateDiff(updatedDiff[1])
                  /\ UNCHANGED diffToRestore
                  /\ last' = Last("onExpandHunk", "updated", <<hunkIndex, kind>>, <<diff>>)

onExpandHunk(hunkIndex, kind) ==
    /\ IF hunkIndex = Null \/ hunkIndex >= Len(diff.hunks)
       THEN /\ UNCHANGED <<diff, inFlight, diffToRestore>>
            /\ last' = Last("onExpandHunk", "outOfRange", <<hunkIndex, kind>>, <<>>)
       ELSE expandHunk(hunkIndex, kind)
    /\ included' = <<>>
    /\ UNCHANGED memoized
    /\ UNCHANGED <<propsVars, tokenVars, dragVars, searchVars>>

\* A variant that does not keep the diff it replaces.
onExpandWholeFileNotSaving ==
    /\ IF fileContents = <<>> \/ ~canExpandDiff
       THEN /\ UNCHANGED <<diff, inFlight>>
            /\ last' = Last("onExpandWholeFile", "denied", <<>>, <<>>)
       ELSE LET updatedDiff == expandWholeTextDiff(diff, fileContents[1].newContents)
            IN  IF updatedDiff = <<>>
                THEN /\ UNCHANGED <<diff, inFlight>>
                     /\ last' = Last("onExpandWholeFile", "noUpdate", <<>>, <<>>)
                ELSE /\ SetStateDiff(updatedDiff[1])
                     /\ last' = Last("onExpandWholeFile", "updated", <<>>, <<diff>>)
    /\ included' = <<>>
    /\ UNCHANGED memoized
    /\ UNCHANGED <<propsVars, tokenVars, dragVars, searchVars, diffToRestore>>

onExpandWholeFile ==
    /\ IF fileContents = <<>> \/ ~canExpandDiff
       THEN /\ UNCHANGED <<diff, inFlight, diffToRestore>>
            /\ last' = Last("onExpandWholeFile", "denied", <<>>, <<>>)
       ELSE LET updatedDiff == expandWholeTextDiff(diff, fileContents[1].newContents)
            IN  IF updatedDiff = <<>>
                THEN /\ UNCHANGED <<diff, inFlight, diffToRestore>>
                     /\ last' = Last("onExpandWholeFile", "noUpdate", <<>>, <<>>)
                ELSE /\ diffToRestore' = <<diff>>
                     /\ SetStateDiff(updatedDiff[1])
                     /\ last' = Last("onExpandWholeFile", "updated", <<>>, <<diff>>)
    /\ included' = <<>>
    /\ UNCHANGED memoized
    /\ UNCHANGED <<propsVars, tokenVars, dragVars, searchVars>>

\* What a collapse remembers of the step before it: that step's operation
\* and outcome, and the diff it replaced if it was an expansion.
CollapseAfter(outcome) ==
    Last("onCollapseExpandedLines", outcome, <<last.op, last.outcome>>, last.pre)

\* A variant that leaves the restore slot filled.
onCollapseKeepingSlot ==
    /\ IF diffToRestore = <<>>
       THEN /\ UNCHANGED <<diff, inFlight>>
            /\ last' = CollapseAfter("returned")
       ELSE /\ SetStateDiff(diffToRestore[1])
            /\ last' = CollapseAfter("restored")
    /\ included' = <<>>
    /\ UNCHANGED memoized
    /\ UNCHANGED <<propsVars, tokenVars, dragVars, searchVars, diffToRestore>>

onCollapseExpandedLines ==
    /\ IF diffToRestore = <<>>
       THEN /\ UNCHANGED <<diff, inFlight, diffToRestore>>
            /\ last' = CollapseAfter("returned")
       ELSE /\ SetStateDiff(diffToRestore[1])
            /\ diffToRestore' = <<>>
            /\ last' = CollapseAfter("restored")
    /\ included' = <<>>
    /\ UNCHANGED memoized
    /\ UNCHANGED <<propsVars, tokenVars, dragVars, searchVars>>

----------------------------------------------------------------------------
\* buildExpandMenuItem: <<>> for null, else <<the menu item>>; the item is
\* given by the handler it invokes and its enabled flag (absent: enabled).
buildExpandMenuItem ==
    IF ~canExpandDiff THEN <<>>
    ELSE IF diffToRestore = <<>>
         THEN <<[action |-> "onExpandWholeFile",
                 enabled |-> \/ Len(diff.hunks) # 1
                             \/ diff.hunks[1].expansionType # "None"]>>
         ELSE <<[action |-> "onCollapseExpandedLines", enabled |-> TRUE]>>

(* Search: showSearch, onSearch, onSearchCancel, resetSearch.              *)

Queries == {<<>>, <<"a">>, <<"b", "A">>}
Directions == {"next", "previous"}

\* A variant that leaves the query in state.
resetSearchKeepingQuery(searching) ==
    /\ selectedSearchResult' = <<>>
    /\ UNCHANGED searchQuery
    /\ searchResults' = <<>>
    /\ isSearching' = searching

resetSearch(searching) ==
    /\ selectedSearchResult' = <<>>
    /\ searchQuery' = <<>>
    /\ searchResults' = <<>>
    /\ isSearching' = searching

\* A variant that opens the search box anew each time.
showSearchAnew ==
    /\ resetSearch(TRUE)
    /\ last' = Last("showSearch", IF isSearching THEN "ignored" ELSE "opened",
                    <<>>, <<>>)
    /\ included' = <<>>
    /\ UNCHANGED memoized
    /\ UNCHANGED <<propsVars, diff, tokenVars, dragVars, diffToRestore, inFlight>>

showSearch ==
    /\ IF ~isSearching
       THEN /\ resetSearch(TRUE)
            /\ last' = Last("showSearch", "opened", <<>>, <<>>)
       ELSE /\ UNCHANGED searchVars
            /\ last' = Last("showSearch", "ignored", <<>>, <<>>)
    /\ included' = <<>>
    /\ UNCHANGED memoized
    /\ UNCHANGED <<propsVars, diff, tokenVars, dragVars, diffToRestore, inFlight>>

\* Variants of onSearch: `moved` gives the index a continued search goes
\* to, `restarted` the index a restarted search begins at.
onSearchWith(query, direction, moved(_, _, _), restarted) ==
    /\ isSearching
    /\ IF searchQuery = <<query>> /\ searchResults # <<>>
       THEN /\ selectedSearchResult' =
                 IF selectedSearchResult = <<>> THEN <<0>>
                 ELSE <<moved(selectedSearchResult[1],
                              IF direction = "next" THEN 1 ELSE 0 - 1,
                              SearchResultsLength(searchResults[1]))>>
            /\ UNCHANGED <<searchQuery, searchResults, isSearching>>
            /\ last' = Last("onSearch", "moved", <<query, direction>>,
                            <<searchQuery, selectedSearchResult>>)
       ELSE \E results \in {calcSearchTokens(diff, showSideBySideDiff, query,
                                             canExpandDiff)} :
               IF results = <<>> \/ SearchResultsLength(results[1]) = 0
               THEN /\ resetSearch(TRUE)
                    /\ last' = Last("onSearch", "reset", <<query, direction>>,
                            <<searchQuery, selectedSearchResult>>)
               ELSE /\ searchQuery' = <<query>>
                    /\ searchResults' = results
                    /\ selectedSearchResult' = <<restarted>>
                    /\ UNCHANGED isSearching
                    /\ last' = Last("onSearch", "restarted", <<query, direction>>,
                            <<searchQuery, selectedSearchResult>>)
    /\ included' = <<>>
    /\ UNCHANGED memoized
    /\ UNCHANGED <<propsVars, diff, tokenVars, dragVars, diffToRestore, inFlight>>

Wrapped(i, delta, n) == (i + delta + n) % n
Stopping(i, delta, n) == Max(0, Min(n - 1, i + delta))

\* Stops at the first and at the last hit.
onSearchStopping(query, direction) ==
    onSearchWith(query, direction, Stopping, 0)

\* Stays at the index of the selected hit when the query changes.
onSearchKeepingIndex(query, direction) ==
    onSearchWith(query, direction, Wrapped,
                 IF selectedSearchResult = <<>> THEN 0 ELSE selectedSearchResult[1])

\* The search box exists only while isSearching.
onSearch(query, direction) ==
    /\ isSearching
    /\ IF searchQuery = <<query>> /\ searchResults # <<>>
       THEN LET n == SearchResultsLength(searchResults[1])
                delta == IF direction = "next" THEN 1 ELSE 0 - 1
            IN  /\ selectedSearchResult' =
                     IF selectedSearchResult = <<>> THEN <<0>>
                     ELSE <<(selectedSearchResult[1] + delta + n) % n>>
                /\ UNCHANGED <<searchQuery, searchResults, isSearching>>
                /\ last' = Last("onSearch", "moved", <<query, direction>>,
                            <<searchQuery, selectedSearchResult>>)
       ELSE LET results == calcSearchTokens(diff, showSideBySideDiff, query,
                                            canExpandDiff)
            IN  IF results = <<>> \/ SearchResultsLength(results[1]) = 0
                THEN /\ resetSearch(TRUE)
                     /\ last' = Last("onSearch", "reset", <<query, direction>>,
                            <<searchQuery, selectedSearchResult>>)
                ELSE /\ searchQuery' = <<query>>
                     /\ searchResults' = results
                     /\ selectedSearchResult' = <<0>>
                     /\ UNCHANGED isSearching
                     /\ last' = Last("onSearch", "restarted", <<query, direction>>,
                            <<searchQuery, selectedSearchResult>>)
    /\ included' = <<>>
    /\ UNCHANGED memoized
    /\ UNCHANGED <<propsVars, diff, tokenVars, dragVars, diffToRestore, inFlight>>

onSearchCancel ==
    /\ isSearching
    /\ resetSearch(FALSE)
    /\ included' = <<>>
    /\ UNCHANGED memoized
    /\ last' = Last("onSearchCancel", "closed", <<>>, <<>>)
    /\ UNCHANGED <<propsVars, diff, tokenVars, dragVars, diffToRestore, inFlight>>

----------------------------------------------------------------------------
(* Initial states: the constructor followed by componentDidMount.          *)

InitWithCallbacks(f, d, contents, sideBySide, sel, callback, discard) ==
    /\ file = f
    /\ selection = sel
    /\ propsDiff = d
    /\ fileContents = contents
    /\ showSideBySideDiff = sideBySide
    /\ hasOnIncludeChanged = callback
    /\ hasOnDiscardChanges = discard
    /\ diff = d
    /\ beforeTokens = <<>>
    /\ afterTokens = <<>>
    /\ temporarySelection = <<>>
    /\ hoveredHunk = <<>>
    /\ isSearching = FALSE
    /\ searchQuery = <<>>
    /\ searchResults = <<>>
    /\ selectedSearchResult = <<>>
    /\ diffToRestore = <<>>
    /\ mouseUpListener = FALSE
    /\ inFlight = initDiffSyntaxMode(PropsSnapshot(f, sideBySide, contents), d)
    /\ included = <<>>
    /\ memoized = <<>>
    /\ last = Last("componentDidMount", "mounted", <<>>, <<>>)

\* The parent passes a discard callback.
InitWith(f, d, contents, sideBySide, sel, callback) ==
    InitWithCallbacks(f, d, contents, sideBySide, sel, callback, TRUE)

InitialSelections == {{}, {3}}

Init ==
    \E f \in Files, d \in ProducerDiffs, sideBySide \in BOOLEAN,
       sel \in InitialSelections, callback \in BOOLEAN :
        InitWith(f, d, <<>>, sideBySide, sel, callback)

Next ==
    \/ \E f \in Files, d \in ProducerDiffs, z \in Resolving : SwitchFile(f, d, z)
    \/ \E c \in ContentsChoices, z \in Resolving : ReceiveFileContents(c, z)
    \/ \E z \in Resolving : ToggleSideBySide(z)
    \/ \E r \in inFlight : HighlightCompleted(r)
    \/ \E row \in RowNumbers, column \in Columns : PointerDown(row, column)
    \/ \E row \in RowNumbers, column \in Columns : PointerMove(row, column)
    \/ onEndSelection
    \/ \E i \in Null..Len(diff.hunks), kind \in ExpansionKinds : onExpandHunk(i, kind)
    \/ onExpandWholeFile
    \/ onCollapseExpandedLines
    \/ showSearch
    \/ \E q \in Queries, direction \in Directions : onSearch(q, direction)
    \/ onSearchCancel

Spec == Init /\ [][Next]_vars

WorkingFile == [id |-> 1, workingDirectory |-> TRUE]

\* Drag selection on one diff in one display mode while the file changes;
\* no file contents, hence no highlighting.
InitDrag ==
    \E d \in ProducerDiffs, sideBySide \in BOOLEAN, sel \in InitialSelections,
       callback \in BOOLEAN :
        InitWith(WorkingFile, d, <<>>, sideBySide, sel, callback)

NextDrag ==
    \/ \E f \in Files : SwitchFile(f, propsDiff, {})
    \/ \E row \in RowNumbers, column \in Columns : PointerDown(row, column)
    \/ \E row \in RowNumbers, column \in Columns : PointerMove(row, column)
    \/ onEndSelection

SpecDrag == InitDrag /\ [][NextDrag]_vars

\* Drag selection and hover of the hunk groups of one file.
NextHover ==
    \/ \E row \in RowNumbers, column \in Columns : PointerDown(row, column)
    \/ \E row \in RowNumbers, column \in Columns : PointerMove(row, column)
    \/ onEndSelection
    \/ \E h \in HunkStartLines : onMouseEnterHunk(h)
    \/ onMouseLeaveHunk

SpecHover == InitDrag /\ [][NextHover]_vars

\* Clicks on the hunk handles of a file that can or cannot be selected,
\* before and during a drag and after expansions.  A click may carry the hunk start line of
\* a row that is no longer there: the line past the end of the diff.
PastTheEnd == LinesBefore(diff.hunks, Len(diff.hunks) + 1)

InitClick ==
    \E f \in Files, d \in ProducerDiffs, sideBySide \in BOOLEAN,
       sel \in InitialSelections, callback \in BOOLEAN :
        InitWith(f, d, FileContentsFor(f.id, TRUE, NewContents(d.text)),
                 sideBySide, sel, callback)

NextClick ==
    \/ \E row \in RowNumbers, column \in Columns : PointerDown(row, column)
    \/ \E i \in 0..(Len(diff.hunks) - 1) : onExpandHunk(i, "all")
    \/ \E h \in HunkStartLines \cup {PastTheEnd}, select \in BOOLEAN : onClickHunk(h, select)

SpecClick == InitClick /\ [][NextClick]_vars

\* Discard requests for lines of the producer's diff, on a file that can or
\* cannot be selected, with some lines included, before and after
\* expansions and hunk clicks.
InitDiscard ==
    \E f \in Files, d \in ProducerDiffs, sel \in InitialSelections, discard \in BOOLEAN :
        InitWithCallbacks(f, d, FileContentsFor(f.id, TRUE, NewContents(d.text)),
                          TRUE, sel, TRUE, discard)

\* The lines of d the context menus offer to discard: its changed lines,
\* by their numbers in d.
ChangedLineNumbers(d) ==
    UNION {{d.hunks[h].lines[k].originalLineNumber :
              k \in {j \in 1..Len(d.hunks[h].lines) :
                       isIncludeableLine(d.hunks[h].lines[j])}} :
           h \in 1..Len(d.hunks)}

NextDiscard ==
    \/ \E i \in 0..(Len(diff.hunks) - 1) : onExpandHunk(i, "all")
    \/ \E h \in HunkStartLines : onClickHunk(h, TRUE)
    \/ \E startLine \in ChangedLineNumbers(propsDiff) :
          \E endLine \in {n \in ChangedLineNumbers(propsDiff) :
                             (startLine..n) \subseteq ChangedLineNumbers(propsDiff)} :
             onDiscardChanges(startLine, endLine)

SpecDiscard == InitDiscard /\ [][NextDiscard]_vars

\* Expansion and collapse while files, diffs and file contents change; the
\* highlighter never answers.
InitExpand == InitWith(WorkingFile, Diff1, <<>>, TRUE, {}, TRUE)

NextExpand ==
    \/ \E f \in Files, d \in ProducerDiffs : SwitchFile(f, d, {})
    \/ \E c \in ContentsChoices : ReceiveFileContents(c, {})
    \/ \E i \in Null..Len(diff.hunks), kind \in ExpansionKinds : onExpandHunk(i, kind)
    \/ onExpandWholeFile
    \/ onCollapseExpandedLines

SpecExpand == InitExpand /\ [][NextExpand]_vars

\* Search on one file while its diff, its contents and the display mode
\* change and hunks are expanded; the highlighter never answers.
LoadedContents == {<<>>, FileContentsFor(file.id, TRUE, NewContents(propsDiff.text))}

NextSearch ==
    \/ \E d \in ProducerDiffs : SwitchFile(file, d, {})
    \/ \E c \in LoadedContents : ReceiveFileContents(c, {})
    \/ ToggleSideBySide({})
    \/ \E i \in 0..(Len(diff.hunks) - 1) : onExpandHunk(i, "all")
    \/ showSearch
    \/ \E q \in Queries, direction \in Directions : onSearch(q, direction)
    \/ onSearchCancel

SpecSearch == InitExpand /\ [][NextSearch]_vars

\* Highlight requests racing with props changes.
OtherFile == [id |-> 2, workingDirectory |-> FALSE]

NextHighlight ==
    \/ \E f \in {WorkingFile, OtherFile}, d \in ProducerDiffs, z \in Resolving : SwitchFile(f, d, z)
    \/ \E c \in LoadedContents, z \in Resolving : ReceiveFileContents(c, z)
    \/ \E z \in Resolving : ToggleSideBySide(z)
    \/ \E r \in inFlight : HighlightCompleted(r)

SpecHighlight == InitExpand /\ [][NextHighlight]_vars

\* Highlighting when every request resolves: highlightContents answers
\* each call some time later, in any order.  The component is mounted with
\* the file contents absent or loaded; componentDidMount issues the first
\* request.
IssuedOnUpdate(f, d, contents, sideBySide) ==
    {i \in {1, 2} :
        \E newProps \in {PropsSnapshot(f, sideBySide, contents)} :
           IF i = 1
           THEN RequestsOnUpdate(newProps, CurrentProps, diff, diff) # {}
           ELSE /\ d.text # propsDiff.text
                /\ RequestsOnUpdate(newProps, newProps, d, diff) # {}}

InitCatchUp ==
    \E contents \in {<<>>, FileContentsFor(WorkingFile.id, TRUE, NewContents(Diff1.text))} :
        InitWith(WorkingFile, Diff1, contents, TRUE, {}, TRUE)

NextCatchUp ==
    \/ \E f \in {WorkingFile, OtherFile}, d \in ProducerDiffs :
          SwitchFile(f, d, IssuedOnUpdate(f, d, fileContents, showSideBySideDiff))
    \/ \E c \in LoadedContents :
          ReceiveFileContents(c, IssuedOnUpdate(file, propsDiff, c, showSideBySideDiff))
    \/ ToggleSideBySide(IssuedOnUpdate(file, propsDiff, fileContents,
                                       ~showSideBySideDiff))
    \/ \E r \in inFlight : HighlightCompleted(r)

SpecCatchUp ==
    /\ InitCatchUp
    /\ [][NextCatchUp]_vars
    /\ WF_vars(\E r \in inFlight : HighlightCompleted(r))

----------------------------------------------------------------------------
(* The memoized getDiffRows (memoize-one): one slot with the arguments and *)
(* the result of the latest call.  An object is a record of its address    *)
(* (ref, or id for an array) and its content; objects are never written    *)
(* to, so equal addresses have equal contents.                             *)

\* Diff objects on the heap.
NumDiffObjects == 3

\* Objects of odd address hold Diff1, objects of even address Diff2: two of
\* them are distinct objects of the same structure.
DiffObjects ==
    {[ref |-> n, diff |-> IF n % 2 = 1 THEN Diff1 ELSE Diff2] : n \in 1..NumDiffObjects}

\* The state diff of the component as an object; its address is not followed.
StateDiffObject == [ref |-> 0, diff |-> diff]

Inputs(object, sideBySide, enableDiffExpansion) ==
    [diff |-> object, showSideBySideDiff |-> sideBySide,
     enableDiffExpansion |-> enableDiffExpansion]

\* Variants: inputs compared by structure; the display mode not compared.
areInputsEqualByContent(newInputs, lastInputs) ==
    /\ newInputs.diff.diff = lastInputs.diff.diff
    /\ newInputs.showSideBySideDiff = lastInputs.showSideBySideDiff
    /\ newInputs.enableDiffExpansion = lastInputs.enableDiffExpansion

areInputsEqualButMode(newInputs, lastInputs) ==
    /\ newInputs.diff.ref = lastInputs.diff.ref
    /\ newInputs.enableDiffExpansion = lastInputs.enableDiffExpansion

\* Each argument is compared with ===: objects by address.
areInputsEqual(newInputs, lastInputs) ==
    /\ newInputs.diff.ref = lastInputs.diff.ref
    /\ newInputs.showSideBySideDiff = lastInputs.showSideBySideDiff
    /\ newInputs.enableDiffExpansion = lastInputs.enableDiffExpansion

\* The address of a new array: another one than the array in the slot has.
NewArrayId == IF memoized = <<>> THEN 0 ELSE 1 - memoized[1].result.id

\* What a call with `inputs` returns.
Memoized(inputs) ==
    IF memoized # <<>> /\ areInputsEqual(inputs, memoized[1].inputs)
    THEN memoized[1].result
    ELSE [id |-> NewArrayId,
          rows |-> getDiffRows(inputs.diff.diff, inputs.showSideBySideDiff,
                               inputs.enableDiffExpansion)]

\* A call of the memoized function from `site`: the array in the slot when
\* the inputs equal the ones of the latest call, else a new array computed
\* from the inputs, which takes the slot.
CallGetDiffRows(site, object, sideBySide, enableDiffExpansion) ==
    /\ \E inputs \in {Inputs(object, sideBySide, enableDiffExpansion)} :
         \E result \in {Memoized(inputs)} :
            /\ memoized' = <<[inputs |-> inputs, result |-> result]>>
            /\ last' = Last(site, result, inputs, memoized)
    /\ included' = <<>>
    /\ UNCHANGED <<propsVars, diff, tokenVars, dragVars, searchVars,
                   diffToRestore, inFlight>>

\* The places that call it: render and renderRow, getDiffLineNumber,
\* calcSearchTokens.
CallSites == {"render", "getDiffLineNumber", "calcSearchTokens"}

NextMemo ==
    \E site \in CallSites, object \in DiffObjects, sideBySide \in BOOLEAN,
       enableDiffExpansion \in BOOLEAN :
        CallGetDiffRows(site, object, sideBySide, enableDiffExpansion)

SpecMemo == InitExpand /\ [][NextMemo]_vars

----------------------------------------------------------------------------
(* Token overlay: createFullRow, getRowDataPopulated, getSearchTokens.     *)

\* The entry of line n in the token table of one side; entries of different
\* lines and of different tables differ.
SyntaxLine(side, n) == OneToken(0, n, side)

\* getTokens (diff-syntax-mode.ts): the entry of the line, <<>> for null.
getTokens(lineNumber, tokens) ==
    IF tokens = <<>> \/ lineNumber = Null THEN <<>>
    ELSE IF lineNumber \in tokens[1].lines
         THEN <<SyntaxLine(tokens[1].side, lineNumber)>>
         ELSE <<>>

\* A variant that compares the row of the selected hit only.
getSearchTokensOfSelectedRow(row, column) ==
    IF searchResults = <<>> THEN <<>>
    ELSE LET lineTokens == getLineTokens(searchResults[1], row, column)
             selected == IF selectedSearchResult = <<>> THEN <<>>
                         ELSE SearchResultsGet(searchResults[1], selectedSearchResult[1])
         IN  IF lineTokens = <<>> THEN <<>>
             ELSE IF /\ selected # <<>>
                     /\ row = selected[1].row
                     /\ selected[1].offset \in DOMAIN lineTokens[1]
                  THEN << <<lineTokens[1],
                            OneToken(selected[1].offset, selected[1].length, "selected")>> >>
                  ELSE << <<lineTokens[1]>> >>

\* <<>> for undefined, else <<the array returned>>.
getSearchTokens(row, column) ==
    IF searchResults = <<>> THEN <<>>
    ELSE LET lineTokens == getLineTokens(searchResults[1], row, column)
             selected == IF selectedSearchResult = <<>> THEN <<>>
                         ELSE SearchResultsGet(searchResults[1], selectedSearchResult[1])
         IN  IF lineTokens = <<>> THEN <<>>
             ELSE IF /\ selected # <<>>
                     /\ row = selected[1].row
                     /\ column = selected[1].column
                     /\ selected[1].offset \in DOMAIN lineTokens[1]
                  THEN << <<lineTokens[1],
                            OneToken(selected[1].offset, selected[1].length, "selected")>> >>
                  ELSE << <<lineTokens[1]>> >>

\* forEach(push) of an array that may be undefined.
PushedAll(optionalArray) == IF optionalArray = <<>> THEN <<>> ELSE optionalArray[1]

getRowDataPopulated(data, row, column, tokens) ==
    [content |-> data.content,
     lineNumber |-> data.lineNumber,
     diffLineNumber |-> data.diffLineNumber,
     noNewLineIndicator |-> data.noNewLineIndicator,
     tokens |-> data.tokens
                \o PushedAll(getSearchTokens(row, column))
                \o getTokens(data.lineNumber, tokens),
     isSelected |-> /\ data.diffLineNumber # Null
                    /\ isInSelection(data.diffLineNumber, row, column,
                                     getSelection, temporarySelection)]

\* A variant that looks in the post-image table first.
lineTokensOfContextAfterFirst(row) ==
    IF getTokens(row.afterLineNumber, afterTokens) # <<>>
    THEN getTokens(row.afterLineNumber, afterTokens)
    ELSE getTokens(row.beforeLineNumber, beforeTokens)

\* The lineTokens of a context row: getTokens(before) ?? getTokens(after).
lineTokensOfContext(row) ==
    IF getTokens(row.beforeLineNumber, beforeTokens) # <<>>
    THEN getTokens(row.beforeLineNumber, beforeTokens)
    ELSE getTokens(row.afterLineNumber, afterTokens)

createFullRow(row, numRow) ==
    CASE row.type = "Added" ->
           [row EXCEPT !.data =
              getRowDataPopulated(row.data, numRow,
                                  IF showSideBySideDiff THEN "after" ELSE "before",
                                  afterTokens)]
      [] row.type = "Deleted" ->
           [row EXCEPT !.data =
              getRowDataPopulated(row.data, numRow, "before", beforeTokens)]
      [] row.type = "Modified" ->
           [row EXCEPT
              !.beforeData = getRowDataPopulated(row.beforeData, numRow, "before",
                                                 beforeTokens),
              !.afterData = getRowDataPopulated(row.afterData, numRow, "after",
                                                afterTokens)]
      [] row.type = "Context" ->
           [row EXCEPT
              !.beforeTokens = row.beforeTokens \o lineTokensOfContext(row)
                               \o PushedAll(getSearchTokens(numRow, "before")),
              !.afterTokens = row.afterTokens \o lineTokensOfContext(row)
                              \o PushedAll(getSearchTokens(numRow, "after"))]
      [] OTHER -> row

\* The rows of the memoized array after the arrays that createFullRow and
\* getRowDataPopulated pushed to are filled.  They push to copies
\* ([...data.tokens], [...row.beforeTokens], [...row.afterTokens]), so the
\* arrays of the memoized row keep their elements; pushing to the arrays
\* of the row themselves would leave the pushed tokens in the memoized row.
RowsAfterPush(rows, index, full, toCopies) ==
    IF toCopies \/ full = <<>> THEN rows
    ELSE [rows EXCEPT ![index + 1] =
            CASE @.type \in {"Added", "Deleted"} ->
                   [@ EXCEPT !.data.tokens = full[1].data.tokens]
              [] @.type = "Modified" ->
                   [@ EXCEPT !.beforeData.tokens = full[1].beforeData.tokens,
                             !.afterData.tokens = full[1].afterData.tokens]
              [] @.type = "Context" ->
                   [@ EXCEPT !.beforeTokens = full[1].beforeTokens,
                             !.afterTokens = full[1].afterTokens]
              [] OTHER -> @]

renderRowPushing(index, toCopies) ==
    /\ \E inputs \in {Inputs(StateDiffObject, showSideBySideDiff, canExpandDiff)} :
         \E result \in {Memoized(inputs)} :
            \E row \in {RowAt(result.rows, index)} :
               \E full \in {IF row = <<>> THEN <<>>
                             ELSE <<createFullRow(row[1], index)>>} :
                  /\ memoized' = <<[inputs |-> inputs,
                                    result |-> [result EXCEPT !.rows =
                                       RowsAfterPush(@, index, full, toCopies)]]>>
                  /\ last' = Last("renderRow", full, <<index>>, <<>>)
    /\ included' = <<>>
    /\ UNCHANGED <<propsVars, diff, tokenVars, dragVars, searchVars,
                   diffToRestore, inFlight>>

\* A variant that pushes to the token arrays of the memoized row.
renderRowPushingInPlace(index) == renderRowPushing(index, FALSE)

\* renderRow({ index }): <<>> for null, else <<the row with its tokens>>.
renderRow(index) == renderRowPushing(index, TRUE)

\* The line numbers that occur in a diff, on either side.
LineNumbersOf(d) ==
    {n \in FileLines :
        \E h \in 1..Len(d.hunks) : \E k \in 1..Len(d.hunks[h].lines) :
            n \in {d.hunks[h].lines[k].oldLineNumber, d.hunks[h].lines[k].newLineNumber}}

TokenTable(side, f, d, lines) ==
    [side |-> side, contents |-> f.id, text |-> d.text, lines |-> lines]

\* Rows are rendered while a search goes on.  The file contents are loaded;
\* the highlighter has not answered, or it has answered with two tables,
\* each with entries for some of the lines of the diff.
InitOverlay ==
    \E d \in ProducerDiffs, sideBySide \in BOOLEAN :
        /\ file = WorkingFile
        /\ selection = {}
        /\ propsDiff = d
        /\ fileContents = FileContentsFor(WorkingFile.id, TRUE, NewContents(d.text))
        /\ showSideBySideDiff = sideBySide
        /\ hasOnIncludeChanged = TRUE
        /\ hasOnDiscardChanges = TRUE
        /\ diff = d
        /\ \/ beforeTokens = <<>> /\ afterTokens = <<>>
           \/ \E old \in SUBSET LineNumbersOf(d), new \in SUBSET LineNumbersOf(d) :
                 /\ beforeTokens = <<TokenTable("oldTokens", WorkingFile, d, old)>>
                 /\ afterTokens = <<TokenTable("newTokens", WorkingFile, d, new)>>
        /\ temporarySelection = <<>>
        /\ hoveredHunk = <<>>
        /\ isSearching = FALSE
        /\ searchQuery = <<>>
        /\ searchResults = <<>>
        /\ selectedSearchResult = <<>>
        /\ diffToRestore = <<>>
        /\ mouseUpListener = FALSE
        /\ inFlight = {}
        /\ included = <<>>
        /\ memoized = <<>>
        /\ last = Last("componentDidMount", "mounted", <<>>, <<>>)

NextOverlay ==
    \/ \E index \in RowNumbers : renderRow(index)
    \/ showSearch
    \/ \E q \in Queries, direction \in Directions : onSearch(q, direction)
    \/ onSearchCancel

SpecOverlay == InitOverlay /\ [][NextOverlay]_vars

----------------------------------------------------------------------------
(* Row classification on its own: the component is constructed on a diff   *)
(* of one hunk whose lines are any sequence of context, deleted and added  *)
(* lines, and renders it in either display mode.                           *)

\* Lines of a generated hunk, its header apart.
MaxHunkLines == 5

LineTypes == {"Context", "Delete", "Add"}

RECURSIVE TypeSequences(_)
TypeSequences(n) ==
    IF n = 0 THEN {<<>>}
    ELSE TypeSequences(n - 1)
         \cup {Append(t, x) : t \in {u \in TypeSequences(n - 1) : Len(u) = n - 1},
                              x \in LineTypes}

\* The content of the k-th line of a generated hunk.
ContentAt(k) ==
    CASE k % 4 = 1 -> Str(<<"a">>)
      [] k % 4 = 2 -> Str(<<"a", "b">>)
      [] k % 4 = 3 -> Str(<<"B", "a", "a", "a">>)
      [] OTHER     -> Str(<<"b">>)

\* The lines for the types from position k on; old and new are the line
\* numbers the next line takes in the pre-image and in the post-image.
RECURSIVE LinesOfTypes(_, _, _, _)
LinesOfTypes(types, k, old, new) ==
    IF k > Len(types) THEN <<>>
    ELSE CASE types[k] = "Context" ->
                <<ContextLine(ContentAt(k), old, new, k)>>
                \o LinesOfTypes(types, k + 1, old + 1, new + 1)
           [] types[k] = "Delete" ->
                <<DeleteLine(ContentAt(k), old, k)>>
                \o LinesOfTypes(types, k + 1, old + 1, new)
           [] types[k] = "Add" ->
                <<AddLine(ContentAt(k), new, k)>>
                \o LinesOfTypes(types, k + 1, old, new + 1)

CountOfType(types, type) == Cardinality({k \in 1..Len(types) : types[k] = type})

\* A diff text id of its own for each type sequence (1 and 2 are taken).
RECURSIVE TextOfTypes(_)
TextOfTypes(types) ==
    IF types = <<>> THEN 3
    ELSE 3 * TextOfTypes(SubSeq(types, 1, Len(types) - 1))
         + (CASE types[Len(types)] = "Context" -> 1
              [] types[Len(types)] = "Delete" -> 2
              [] OTHER -> 3)

GeneratedDiff(types) ==
    [text |-> TextOfTypes(types),
     hunks |-> <<
       [lines |-> <<HunkLine(0)>> \o LinesOfTypes(types, 1, 1, 1),
        header |-> Header(1, Len(types) - CountOfType(types, "Add"),
                          1, Len(types) - CountOfType(types, "Delete")),
        unifiedDiffStart |-> 0,
        expansionType |-> "Down"] >>]

GeneratedDiffs == {GeneratedDiff(types) : types \in TypeSequences(MaxHunkLines)}

\* render(): the rows handed to the list.
render ==
    CallGetDiffRows("render", StateDiffObject, showSideBySideDiff, canExpandDiff)

InitClassify ==
    \E d \in GeneratedDiffs \cup ProducerDiffs, sideBySide \in BOOLEAN :
        InitWith(WorkingFile, d, <<>>, sideBySide, {}, TRUE)

NextClassify ==
    \/ render
    \/ ToggleSideBySide({})

SpecClassify == InitClassify /\ [][NextClassify]_vars

\* Drags over generated hunks: the component is constructed on a hunk of
\* up to MaxPreviewLines lines of any types followed by a context line and
\* an added line, in either display mode, with no line included; the
\* pointer goes down, moves and is released, any number of times.
MaxPreviewLines == 3

PreviewDiffs ==
    {GeneratedDiff(types \o <<"Context", "Add">>) :
        types \in TypeSequences(MaxPreviewLines)}

InitPreview ==
    \E d \in PreviewDiffs, sideBySide \in BOOLEAN :
        InitWith(WorkingFile, d, <<>>, sideBySide, {}, TRUE)

NextPreview ==
    \/ \E row \in RowNumbers, column \in Columns : PointerDown(row, column)
    \/ \E row \in RowNumbers, column \in Columns : PointerMove(row, column)
    \/ onEndSelection

SpecPreview == InitPreview /\ [][NextPreview]_vars

\* Rendering of generated hunks whose changed lines are short or have a
\* length at the threshold of the intra-line diff.
MaxEmphasisLines == 4

EmphasisLengths == {1, MaxLineLengthToCalculateDiff - 1, MaxLineLengthToCalculateDiff}

\* A line to generate: its type and the length of its content.
LineShapes ==
    {[type |-> "Context", length |-> 1]}
    \cup {[type |-> t, length |-> n] : t \in {"Delete", "Add"}, n \in EmphasisLengths}

RECURSIVE ShapeSequences(_)
ShapeSequences(n) ==
    IF n = 0 THEN {<<>>}
    ELSE ShapeSequences(n - 1)
         \cup {Append(t, x) : t \in {u \in ShapeSequences(n - 1) : Len(u) = n - 1},
                              x \in LineShapes}

\* A content of n characters: a letter that depends on the line's place,
\* then filler.
ContentOfLength(k, n) ==
    [text |-> <<IF k % 2 = 1 THEN "a" ELSE "b">>, pad |-> n - 1]

RECURSIVE LinesOfShapes(_, _, _, _)
LinesOfShapes(shapes, k, old, new) ==
    IF k > Len(shapes) THEN <<>>
    ELSE CASE shapes[k].type = "Context" ->
                <<ContextLine(ContentOfLength(k, shapes[k].length), old, new, k)>>
                \o LinesOfShapes(shapes, k + 1, old + 1, new + 1)
           [] shapes[k].type = "Delete" ->
                <<DeleteLine(ContentOfLength(k, shapes[k].length), old, k)>>
                \o LinesOfShapes(shapes, k + 1, old + 1, new)
           [] shapes[k].type = "Add" ->
                <<AddLine(ContentOfLength(k, shapes[k].length), new, k)>>
                \o LinesOfShapes(shapes, k + 1, old, new + 1)

\* A diff text id of its own for each shape sequence (negative: the ids of
\* the other diffs are positive).
RECURSIVE TextOfShapes(_)
TextOfShapes(shapes) ==
    IF shapes = <<>> THEN 0 - 1
    ELSE 10 * TextOfShapes(SubSeq(shapes, 1, Len(shapes) - 1))
         - (CASE shapes[Len(shapes)].type = "Context" -> 0
              [] shapes[Len(shapes)].type = "Delete" ->
                   1 + Cardinality({n \in EmphasisLengths : n < shapes[Len(shapes)].length})
              [] OTHER ->
                   4 + Cardinality({n \in EmphasisLengths : n < shapes[Len(shapes)].length}))

ShapedDiff(shapes) ==
    [text |-> TextOfShapes(shapes),
     hunks |-> <<
       [lines |-> <<HunkLine(0)>> \o LinesOfShapes(shapes, 1, 1, 1),
        header |-> Header(1, Cardinality({k \in 1..Len(shapes) : shapes[k].type # "Add"}),
                          1, Cardinality({k \in 1..Len(shapes) : shapes[k].type # "Delete"})),
        unifiedDiffStart |-> 0,
        expansionType |-> "Down"] >>]

InitEmphasis ==
    \E shapes \in ShapeSequences(MaxEmphasisLines), sideBySide \in BOOLEAN :
        InitWith(WorkingFile, ShapedDiff(shapes), <<>>, sideBySide, {}, TRUE)

SpecEmphasis == InitEmphasis /\ [][NextClassify]_vars

\* Search over generated hunks of up to MaxScanLines lines, in either
\* display mode.
MaxScanLines == 4

ScanQueries == Queries \cup {<<"a", "a">>}

InitScan ==
    \E types \in TypeSequences(MaxScanLines), sideBySide \in BOOLEAN :
        InitWith(WorkingFile, GeneratedDiff(types), <<>>, sideBySide, {}, TRUE)

NextScan ==
    \/ showSearch
    \/ \E q \in ScanQueries : onSearch(q, "next")

SpecScan == InitScan /\ [][NextScan]_vars

----------------------------------------------------------------------------
(* Properties of the drag selection, under SpecDrag.                       *)

LineNumbers == 0..5
CellRows == 0..4

\* The cell (row, column) lies within the rectangle the drag spans: its row
\* between the start row and the end row, in either order, and its column
\* the start column or the end column.
WithinTransientRectangle(row, column) ==
    /\ temporarySelection # <<>>
    /\ \/ /\ temporarySelection[1].from.row <= row
          /\ row <= temporarySelection[1].to.row
       \/ /\ temporarySelection[1].to.row <= row
          /\ row <= temporarySelection[1].from.row
    /\ column \in {temporarySelection[1].from.column, temporarySelection[1].to.column}

PersistedMember(n) == canSelect(file) /\ n \in selection

\* C1: for every cell (diffLineNumber, row, column), isInSelection is the
\* persisted membership when no drag is active, persisted membership OR
\* within the transient rectangle for an additive drag, and persisted
\* membership AND NOT within the transient rectangle for a subtractive drag;
\* an absent persisted selection has no member.
C1_IsInSelection ==
    \A n \in LineNumbers, row \in CellRows, column \in Columns :
        isInSelection(n, row, column, getSelection, temporarySelection)
          <=> IF temporarySelection = <<>> THEN PersistedMember(n)
              ELSE IF temporarySelection[1].isSelected
                   THEN PersistedMember(n) \/ WithinTransientRectangle(row, column)
                   ELSE PersistedMember(n) /\ ~WithinTransientRectangle(row, column)

\* A subtractive drag, dragged upwards, that hides an included line.
C1_Witness ==
    /\ temporarySelection # <<>>
    /\ ~temporarySelection[1].isSelected
    /\ temporarySelection[1].from.row > temporarySelection[1].to.row
    /\ \E row \in RowNumbers, column \in Columns :
          /\ getDiffLineNumber(row, column) \in selection
          /\ canSelect(file)
          /\ ~RenderedIsSelected(row, column)

\* The lines a release of the current drag resolves: the diff line numbers
\* of the rows between the start row and the end row, at the start column or
\* at the end column.
ResolvedLines ==
    {getDiffLineNumber(row, column) :
        row \in {r \in RowNumbers : WithinTransientRectangle(r, temporarySelection[1].from.column)},
        column \in {temporarySelection[1].from.column, temporarySelection[1].to.column}}
    \ {Null}

ReleasedSelection ==
    IF temporarySelection[1].isSelected
    THEN selection \cup ResolvedLines
    ELSE selection \ ResolvedLines

ReleaseOfDrag ==
    /\ last'.op = "onEndSelection"
    /\ canSelect(file)
    /\ temporarySelection # <<>>

\* C2 (as stated): releasing a drag on a selectable file delivers exactly one
\* include-changed notification: the persisted selection with the resolved
\* lines set to the drag's boolean and every other line as before; and the
\* transient drag state is absent afterwards.
C2_ReleaseNotifiesOnce ==
    [][ReleaseOfDrag => /\ included' = <<ReleasedSelection>>
                        /\ temporarySelection' = <<>>]_vars

\* C2 (amended): the transient drag state is absent after the release, and
\* when the parent passed an include-changed callback exactly that one
\* notification is delivered; without a callback nothing is delivered.
C2_ReleaseNotifiesCallback ==
    [][ReleaseOfDrag => /\ temporarySelection' = <<>>
                        /\ included' = IF hasOnIncludeChanged
                                       THEN <<ReleasedSelection>> ELSE <<>>]_vars

\* Line 3 was included; an additive drag over the rows of lines 2 to 4 was
\* released.
C2_Witness ==
    /\ last.op = "onEndSelection"
    /\ last.outcome = "committed"
    /\ included = <<{2, 3, 4}>>
    /\ temporarySelection = <<>>

\* C3: after any pointer-up that follows a pointer-down the transient drag
\* selection is absent, whatever the file's selectability.
C3_NoDragAfterPointerUp ==
    [][last'.op = "onEndSelection" => temporarySelection' = <<>>]_vars

----------------------------------------------------------------------------
(* Properties of syntax highlighting, under SpecHighlight.                 *)

\* The highlight parameters now are the ones request r captured: file
\* identity, display mode, diff text, file-contents identity.
ParametersAsCaptured(r) ==
    /\ r.propsSnapshot.fileId = file.id
    /\ r.propsSnapshot.showSideBySideDiff = showSideBySideDiff
    /\ r.stateSnapshot.text = diff.text
    /\ r.propsSnapshot.contentsFileId =
         (IF fileContents = <<>> THEN <<>> ELSE <<fileContents[1].file>>)

Completes(r) ==
    /\ last'.op = "highlightCompleted"
    /\ r \in inFlight
    /\ r \notin inFlight'

\* C4: the token state changes only when a request completes whose captured
\* highlight parameters equal the current ones, and then to that request's
\* result; a request that completes under different parameters leaves the
\* state unchanged.
C4_TokensAppliedOnlyIfParametersEqual ==
    [][/\ (beforeTokens' # beforeTokens \/ afterTokens' # afterTokens)
          => \E r \in inFlight :
                /\ Completes(r)
                /\ ParametersAsCaptured(r)
                /\ beforeTokens' = <<highlightContents(r, "oldTokens")>>
                /\ afterTokens' = <<highlightContents(r, "newTokens")>>
       /\ \A r \in inFlight :
             Completes(r) /\ ~ParametersAsCaptured(r)
                => UNCHANGED <<propsVars, diff, tokenVars, dragVars, searchVars,
                               diffToRestore>>]_vars

\* A stale request has just been discarded while the tokens of the current
\* contents and diff text, applied before, stay on display.
C4_Witness ==
    /\ last.op = "highlightCompleted"
    /\ last.outcome = "discarded"
    /\ beforeTokens # <<>>
    /\ fileContents # <<>>
    /\ beforeTokens[1].contents = fileContents[1].file
    /\ beforeTokens[1].text = diff.text

----------------------------------------------------------------------------
(* Properties of the search results, under SpecSearch.                     *)

\* The hit addresses text of the rows on screen that matches the query.
HitAddressesMatch(hit, query) ==
    \E row \in {RowAt(Rows, hit.row)} :
        /\ row # <<>>
        /\ \E cell \in {enumerateColumnContents(row[1], showSideBySideDiff)} :
              \E k \in 1..Len(cell) :
                  /\ cell[k].type = hit.column
                  /\ hit.length = Len(query)
                  /\ MatchesAt(cell[k].content, query, hit.offset)

\* C5: whatever expansion, collapse, new producer diff or display-mode switch
\* has happened, the search results in state are absent or every hit (row,
\* column, offset, length) addresses text of the current rows that matches
\* the query.
C5_SearchHitsAddressCurrentRows ==
    searchResults # <<>> =>
        \A i \in 1..Len(searchResults[1].hits) :
            HitAddressesMatch(searchResults[1].hits[i], searchQuery[1])

----------------------------------------------------------------------------
(* Properties of expansion and collapse, under SpecExpand.                 *)

\* C6: when onExpandWholeFile produces an updated diff, the diff that was
\* current just before is stored in the restore slot; a collapse with a
\* filled slot makes the stored diff current and empties the slot; so a
\* collapse right after a whole-file expansion brings back the diff from
\* before the expansion.
C6_WholeFileRoundTrip ==
    [][/\ (last'.op = "onExpandWholeFile" /\ diff' # diff)
          => diffToRestore' = <<diff>>
       /\ (last'.op = "onCollapseExpandedLines" /\ diffToRestore # <<>>)
          => /\ diff' = diffToRestore[1]
             /\ diffToRestore' = <<>>
       /\ (/\ last.op = "onExpandWholeFile"
           /\ last.outcome = "updated"
           /\ last'.op = "onCollapseExpandedLines")
          => /\ diff' = last.pre[1]
             /\ diffToRestore' = <<>>]_vars

\* A collapse right after a whole-file expansion has restored the diff from
\* before the expansion.
C6_Witness ==
    /\ last.op = "onCollapseExpandedLines"
    /\ last.outcome = "restored"
    /\ last.args = <<"onExpandWholeFile", "updated">>
    /\ diff = last.pre[1]
    /\ diffToRestore = <<>>

AfterHunkExpansion == last.op = "onExpandHunk" /\ last.outcome = "updated"

C8_ReversibleOnce ==
    [][/\ Len(diffToRestore') <= 1
       /\ (last'.op = "onCollapseExpandedLines" /\ diffToRestore = <<>>)
          => UNCHANGED <<diff, diffToRestore>>
       /\ last'.op = "onCollapseExpandedLines" => diffToRestore' = <<>>
       /\ (last.op = "onCollapseExpandedLines" /\ last'.op = "onCollapseExpandedLines")
          => UNCHANGED <<diff, diffToRestore>>]_vars

\* A second collapse right after one that restored a diff has changed
\* nothing.
C8_Witness ==
    /\ last.op = "onCollapseExpandedLines"
    /\ last.outcome = "returned"
    /\ last.args = <<"onCollapseExpandedLines", "restored">>
    /\ diffToRestore = <<>>

\* C9: after a file switch the current diff is the producer's diff for the
\* new file and the restore slot is empty, whatever the state before.
C9_FileSwitchResets ==
    [][file'.id # file.id => /\ diff' = propsDiff'
                             /\ diffToRestore' = <<>>]_vars

\* The file contents are absent or not eligible for expansion.
ContentsDenyExpansion ==
    \/ fileContents = <<>>
    \/ ~fileContents[1].canBeExpanded
    \/ fileContents[1].newContents = <<>>

HunkExpansionDenied(hunkIndex, kind) ==
    \/ ContentsDenyExpansion
    \/ hunkIndex = 0 - 1
    \/ hunkIndex >= Len(diff.hunks)
    \/ expandTextDiffHunk(diff, hunkIndex, kind, fileContents[1].newContents) = <<>>

WholeFileExpansionDenied ==
    \/ ContentsDenyExpansion
    \/ expandWholeTextDiff(diff, fileContents[1].newContents) = <<>>

\* C10: when the file contents are absent or not eligible, when the hunk
\* index is -1 or out of range, or when the expansion function returns no
\* update, onExpandHunk and onExpandWholeFile leave the current diff and the
\* restore slot unchanged.
C10_DeniedExpansionIsNoOp ==
    [][/\ (/\ last'.op = "onExpandHunk"
           /\ HunkExpansionDenied(last'.args[1], last'.args[2]))
          => UNCHANGED <<diff, diffToRestore>>
       /\ (last'.op = "onExpandWholeFile" /\ WholeFileExpansionDenied)
          => UNCHANGED <<diff, diffToRestore>>]_vars

\* An expansion has just been denied because the contents are present but
\* not eligible, while the restore slot is filled.
C10_Witness ==
    /\ last.op \in {"onExpandHunk", "onExpandWholeFile"}
    /\ last.outcome = "denied"
    /\ fileContents # <<>>
    /\ ~fileContents[1].canBeExpanded
    /\ diffToRestore # <<>>

----------------------------------------------------------------------------
(* Properties of the row classification, under SpecClassify.               *)

\* The lines of all hunks, in order.  Each hunk begins with its header line,
\* so a run of changed lines never spans two hunks.
RECURSIVE AllLines(_, _)
AllLines(hunks, i) ==
    IF i > Len(hunks) THEN <<>> ELSE hunks[i].lines \o AllLines(hunks, i + 1)

Changed(line) == line.type \in {"Add", "Delete"}

\* The maximal runs of changed lines: <<first, last>> positions.
MaximalRuns(lines) ==
    {run \in (1..Len(lines)) \X (1..Len(lines)) :
        /\ run[1] <= run[2]
        /\ \A k \in run[1]..run[2] : Changed(lines[k])
        /\ run[1] = 1 \/ ~Changed(lines[run[1] - 1])
        /\ run[2] = Len(lines) \/ ~Changed(lines[run[2] + 1])}

DeletedOfRun(lines, run) ==
    SelectSeq(SubSeq(lines, run[1], run[2]), LAMBDA l : l.type = "Delete")
AddedOfRun(lines, run) ==
    SelectSeq(SubSeq(lines, run[1], run[2]), LAMBDA l : l.type = "Add")

\* The rows a run takes when `paired` says that deleted and added lines
\* share a row: the longer of its two sides, else one row per line.
RunRowCount(lines, run, paired) ==
    IF paired
    THEN Max(Len(DeletedOfRun(lines, run)), Len(AddedOfRun(lines, run)))
    ELSE run[2] - run[1] + 1

RECURSIVE SumOfRuns(_, _, _)
SumOfRuns(lines, runs, paired) ==
    IF runs = {} THEN 0
    ELSE LET run == CHOOSE r \in runs : TRUE
         IN  RunRowCount(lines, run, paired) + SumOfRuns(lines, runs \ {run}, paired)

\* The rows that come before the row(s) of line k.
RowsBeforeLine(lines, k, paired) ==
    Cardinality({j \in 1..(k - 1) : ~Changed(lines[j])})
    + SumOfRuns(lines, {run \in MaximalRuns(lines) : run[2] < k}, paired)

\* The cell data is the one of the line, numbered on its own side.
DataOfDeleted(data, line) ==
    /\ data.content = line.content
    /\ data.lineNumber = line.oldLineNumber
    /\ data.diffLineNumber = line.originalLineNumber
DataOfAdded(data, line) ==
    /\ data.content = line.content
    /\ data.lineNumber = line.newLineNumber
    /\ data.diffLineNumber = line.originalLineNumber

\* From row position `before` + 1 on, rows holds `pairs` Modified rows that
\* pair deleted[i] with added[i], then the other deleted lines as Deleted
\* rows in order, then the other added lines as Added rows in order.
RunEmittedAs(rows, before, deleted, added, pairs) ==
    /\ before + Len(deleted) + Len(added) - pairs <= Len(rows)
    /\ \A i \in 1..pairs :
          /\ rows[before + i].type = "Modified"
          /\ DataOfDeleted(rows[before + i].beforeData, deleted[i])
          /\ DataOfAdded(rows[before + i].afterData, added[i])
    /\ \A i \in (pairs + 1)..Len(deleted) :
          /\ rows[before + i].type = "Deleted"
          /\ DataOfDeleted(rows[before + i].data, deleted[i])
    /\ \A i \in (pairs + 1)..Len(added) :
          /\ rows[before + Len(deleted) - pairs + i].type = "Added"
          /\ DataOfAdded(rows[before + Len(deleted) - pairs + i].data, added[i])

\* Every other row is the row of one unchanged line.
OtherRowsUnchangedLines(rows, lines, paired) ==
    /\ Len(rows) = RowsBeforeLine(lines, Len(lines) + 1, paired)
    /\ \A k \in 1..Len(lines) :
          ~Changed(lines[k])
            => rows[RowsBeforeLine(lines, k, paired) + 1].type \in {"Hunk", "Context"}

\* C11: in the side-by-side display, every run of consecutive add/delete
\* lines with d deletes and a adds, in any interleaving, is emitted as
\* min(a, d) Modified rows pairing deleted[i] with added[i], then the
\* unpaired deleted lines as Deleted rows in order, then the unpaired added
\* lines as Added rows in order, and no row of another place is Modified.
C11_SideBySidePairing ==
    (last.op = "render" /\ showSideBySideDiff)
      => \A lines \in {AllLines(diff.hunks, 1)} :
            /\ \A run \in MaximalRuns(lines) :
                  RunEmittedAs(last.outcome.rows,
                               RowsBeforeLine(lines, run[1], TRUE),
                               DeletedOfRun(lines, run), AddedOfRun(lines, run),
                               Min(Len(DeletedOfRun(lines, run)),
                                   Len(AddedOfRun(lines, run))))
            /\ OtherRowsUnchangedLines(last.outcome.rows, lines, TRUE)

\* A run of 2 deletes and 3 adds, interleaved, rendered side by side: two
\* Modified rows and one Added row after the header row.
C11_Witness ==
    /\ last.op = "render"
    /\ showSideBySideDiff
    /\ diff = GeneratedDiff(<<"Add", "Delete", "Add", "Delete", "Add">>)
    /\ Len(last.outcome.rows) = 4
    /\ last.outcome.rows[2].type = "Modified"
    /\ last.outcome.rows[3].type = "Modified"
    /\ last.outcome.rows[4].type = "Added"

\* C12: in the unified display, no row is Modified, and every run of
\* add/delete lines is emitted as all of its deleted lines in their order
\* followed by all of its added lines in their order, one row per line.
C12_UnifiedRuns ==
    (last.op = "render" /\ ~showSideBySideDiff)
      => \A lines \in {AllLines(diff.hunks, 1)} :
            /\ \A i \in 1..Len(last.outcome.rows) : last.outcome.rows[i].type # "Modified"
            /\ \A run \in MaximalRuns(lines) :
                  RunEmittedAs(last.outcome.rows,
                               RowsBeforeLine(lines, run[1], FALSE),
                               DeletedOfRun(lines, run), AddedOfRun(lines, run), 0)
            /\ OtherRowsUnchangedLines(last.outcome.rows, lines, FALSE)

\* The same interleaved run in the unified display: two Deleted rows, then
\* three Added rows.
C12_Witness ==
    /\ last.op = "render"
    /\ ~showSideBySideDiff
    /\ diff = GeneratedDiff(<<"Add", "Delete", "Add", "Delete", "Add">>)
    /\ Len(last.outcome.rows) = 6
    /\ last.outcome.rows[3].type = "Deleted"
    /\ last.outcome.rows[3].data.diffLineNumber = 4
    /\ last.outcome.rows[4].type = "Added"
    /\ last.outcome.rows[4].data.diffLineNumber = 1

----------------------------------------------------------------------------
(* Properties of the memoized getDiffRows, under SpecMemo.                 *)

\* The step was a call of the memoized function that followed another call.
CalledAgain == last.op \in CallSites /\ last.pre # <<>>

SameFlags(inputs, lastInputs) ==
    /\ inputs.showSideBySideDiff = lastInputs.showSideBySideDiff
    /\ inputs.enableDiffExpansion = lastInputs.enableDiffExpansion

\* C13: a call that follows a call with the same diff reference, the same
\* display mode and the same expansion flag returns the identical array
\* object; a call with a structurally identical but new diff object (and the
\* same flags) returns a new array whose content is equal.
C13_MemoizedByIdentity ==
    CalledAgain
      => /\ (/\ last.args.diff.ref = last.pre[1].inputs.diff.ref
             /\ SameFlags(last.args, last.pre[1].inputs))
               => last.outcome.id = last.pre[1].result.id
         /\ (/\ last.args.diff.ref # last.pre[1].inputs.diff.ref
             /\ last.args.diff.diff = last.pre[1].inputs.diff.diff
             /\ SameFlags(last.args, last.pre[1].inputs))
               => /\ last.outcome.id # last.pre[1].result.id
                  /\ last.outcome.rows = last.pre[1].result.rows

\* A call with another object of the same structure right after a call
\* with the first one.
C13_Witness ==
    /\ CalledAgain
    /\ last.args.diff.ref # last.pre[1].inputs.diff.ref
    /\ last.args.diff.diff = last.pre[1].inputs.diff.diff
    /\ SameFlags(last.args, last.pre[1].inputs)
    /\ last.outcome.id # last.pre[1].result.id

\* C14: after any sequence of calls, from any call site and with any
\* arguments, the rows a call returns are the rows the classification
\* yields for that call's own diff, display mode and expansion flag.
C14_NeverStaleRows ==
    last.op \in CallSites
      => last.outcome.rows = RowsOfHunks(last.args.diff.diff.hunks, 0,
                                         last.args.showSideBySideDiff,
                                         last.args.enableDiffExpansion)

\* A call from the search on the diff object that is in the slot, in the
\* other display mode: the rows in the slot are not the rows of this call.
C14_Witness ==
    /\ CalledAgain
    /\ last.op = "calcSearchTokens"
    /\ last.args.diff = last.pre[1].inputs.diff
    /\ last.args.showSideBySideDiff # last.pre[1].inputs.showSideBySideDiff
    /\ last.outcome.rows # last.pre[1].result.rows

----------------------------------------------------------------------------
(* Properties of the token overlay, under SpecOverlay.                     *)

\* The step rendered a row: the row as classified, and the row rendered.
Rendered == last.op = "renderRow" /\ last.outcome # <<>>

\* The columns of a row that show a line.
CellsOf(row) ==
    CASE row.type = "Added" -> {IF showSideBySideDiff THEN "after" ELSE "before"}
      [] row.type = "Deleted" -> {"before"}
      [] row.type \in {"Modified", "Context"} -> {"before", "after"}
      [] OTHER -> {}

\* The token list of a cell of a row (rendered, or as classified).
CellTokens(row, column) ==
    CASE row.type \in {"Added", "Deleted"} -> row.data.tokens
      [] row.type = "Modified" ->
           IF column = "before" THEN row.beforeData.tokens ELSE row.afterData.tokens
      [] row.type = "Context" ->
           IF column = "before" THEN row.beforeTokens ELSE row.afterTokens

\* The hits of the search in a cell.
HitsIn(rowNumber, column) ==
    IF searchResults = <<>> THEN {}
    ELSE {searchResults[1].hits[k] : k \in
            {j \in 1..Len(searchResults[1].hits) :
                /\ searchResults[1].hits[j].row = rowNumber
                /\ searchResults[1].hits[j].column = column}}

SelectedHit ==
    IF searchResults = <<>> \/ selectedSearchResult = <<>> THEN {}
    ELSE IF selectedSearchResult[1] + 1 \in 1..Len(searchResults[1].hits)
         THEN {searchResults[1].hits[selectedSearchResult[1] + 1]}
         ELSE {}

\* (b): the search-hit tokens of a cell, followed by the 'selected' token
\* when the selected hit lies in the cell.
SearchHitTokens(rowNumber, column) ==
    IF HitsIn(rowNumber, column) = {} THEN <<>>
    ELSE << [o \in {h.offset : h \in HitsIn(rowNumber, column)} |->
               [length |-> (CHOOSE h \in HitsIn(rowNumber, column) : h.offset = o).length,
                token |-> "search-result"]] >>
         \o (IF SelectedHit \cap HitsIn(rowNumber, column) # {}
             THEN LET h == CHOOSE x \in SelectedHit : TRUE
                  IN  <<OneToken(h.offset, h.length, "selected")>>
             ELSE <<>>)

\* The entry of line n in a table (<<>> or <<table>>), if it has one.
EntryOf(tokens, n) ==
    IF tokens # <<>> /\ n \in tokens[1].lines
    THEN <<SyntaxLine(tokens[1].side, n)>> ELSE <<>>

\* (c): what the syntax tokens of a cell may be.  The cell of an added or a
\* deleted line has the entry of its line number in the table of its side;
\* for the cell of a context line any entry of either table is admitted
\* here (C16 says which one it is).
SyntaxTokensAdmitted(row, column) ==
    CASE row.type = "Added" -> {EntryOf(afterTokens, row.data.lineNumber)}
      [] row.type = "Deleted" -> {EntryOf(beforeTokens, row.data.lineNumber)}
      [] row.type = "Modified" ->
           {IF column = "before"
            THEN EntryOf(beforeTokens, row.beforeData.lineNumber)
            ELSE EntryOf(afterTokens, row.afterData.lineNumber)}
      [] row.type = "Context" ->
           {<<>>} \cup {EntryOf(t, n) : t \in {beforeTokens, afterTokens},
                                        n \in FileLines}

\* C15: for every rendered Added, Deleted, Modified or Context row and
\* every column of it, the final token list is (a) the cell's intra-line
\* emphasis tokens, then (b) the search-hit tokens of the cell with the
\* 'selected' token when the selected hit is in the cell, then (c) the
\* syntax tokens of the cell's line.
C15_OverlayOrder ==
    Rendered
      => \A row \in {RowAt(Rows, last.args[1])} :
            \A column \in CellsOf(row[1]) :
               \E syntax \in SyntaxTokensAdmitted(row[1], column) :
                  CellTokens(last.outcome[1], column)
                    = CellTokens(row[1], column)
                      \o SearchHitTokens(last.args[1], column)
                      \o syntax

\* The syntax tokens within a token list.
SyntaxIn(tokens) ==
    SelectSeq(tokens,
              LAMBDA t : \E o \in DOMAIN t : t[o].token \in {"oldTokens", "newTokens"})

RenderedContext == Rendered /\ last.outcome[1].type = "Context"

\* C16 as claimed: on a Context row the before column has the pre-image
\* entry of the before line number and nothing else, the after column the
\* post-image entry of the after line number and nothing else, each
\* whether or not the other lookup misses.
C16_PerColumnLookup ==
    RenderedContext
      => /\ SyntaxIn(last.outcome[1].beforeTokens)
              = EntryOf(beforeTokens, last.outcome[1].beforeLineNumber)
         /\ SyntaxIn(last.outcome[1].afterTokens)
              = EntryOf(afterTokens, last.outcome[1].afterLineNumber)

\* C16: on a Context row both columns have the same syntax tokens: the
\* pre-image entry of the before line number when there is one, else the
\* post-image entry of the after line number, else none.
C16_SharedLookup ==
    RenderedContext
      => \E entry \in {IF EntryOf(beforeTokens, last.outcome[1].beforeLineNumber) # <<>>
                       THEN EntryOf(beforeTokens, last.outcome[1].beforeLineNumber)
                       ELSE EntryOf(afterTokens, last.outcome[1].afterLineNumber)} :
            /\ SyntaxIn(last.outcome[1].beforeTokens) = entry
            /\ SyntaxIn(last.outcome[1].afterTokens) = entry

\* A Context row whose pre-image lookup misses and whose post-image lookup
\* hits: the before column shows the post-image entry.
C16_Witness ==
    /\ RenderedContext
    /\ EntryOf(beforeTokens, last.outcome[1].beforeLineNumber) = <<>>
    /\ EntryOf(afterTokens, last.outcome[1].afterLineNumber) # <<>>
    /\ SyntaxIn(last.outcome[1].beforeTokens)
         = EntryOf(afterTokens, last.outcome[1].afterLineNumber)

----------------------------------------------------------------------------
(* Properties of the search, under SpecSearch and SpecScan.                *)

\* The texts a row shows.
ContentsOfRow(row) ==
    CASE row.type \in {"Added", "Deleted"} -> {row.data.content}
      [] row.type = "Modified" -> {row.beforeData.content, row.afterData.content}
      [] OTHER -> {row.content}

\* The query is empty or occurs in no row but the hunk headers.
ZeroHitQuery(query) ==
    \/ query = <<>>
    \/ \A rows \in {Rows} :
          \A k \in 1..Len(rows) :
             rows[k].type # "Hunk"
               => \A content \in ContentsOfRow(rows[k]) :
                     \A o \in 0..Len(content.text) : ~MatchesAt(content, query, o)

\* The step is onSearch(query, ...); before it the stored query is `query`
\* and there are results.
Searches(query) == last'.op = "onSearch" /\ last'.args[1] = query
Continues(query) == searchQuery = <<query>> /\ searchResults # <<>>

C18_NavigationWraps ==
    [][\A query \in Queries :
          (Searches(query) /\ Continues(query) /\ selectedSearchResult # <<>>)
            => \E n \in {Len(searchResults[1].hits)}, i \in {selectedSearchResult[1]} :
                  /\ n > 0
                  /\ selectedSearchResult' =
                       IF last'.args[2] = "next"
                       THEN IF i = n - 1 THEN <<0>> ELSE <<i + 1>>
                       ELSE IF i = 0 THEN <<n - 1>> ELSE <<i - 1>>
                  /\ UNCHANGED <<searchQuery, searchResults, isSearching>>]_vars

\* On a set of two hits, 'next' went from hit 1 back to hit 0.
C18_Witness ==
    /\ last.op = "onSearch"
    /\ last.outcome = "moved"
    /\ last.args[2] = "next"
    /\ last.pre[2] = <<1>>
    /\ selectedSearchResult = <<0>>
    /\ Len(searchResults[1].hits) = 2

\* C19: onSearch with a query that differs from the stored one, in either
\* direction, and that has a hit in the current rows stores the query,
\* rebuilds the hits for it against the current rows, and selects hit 0.
C19_QueryChangeRestarts ==
    [][\A query \in Queries :
          (Searches(query) /\ searchQuery # <<query>> /\ ~ZeroHitQuery(query))
            => /\ searchQuery' = <<query>>
               /\ selectedSearchResult' = <<0>>
               /\ searchResults' # <<>>
               /\ Len(searchResults'[1].hits) > 0
               /\ \A k \in 1..Len(searchResults'[1].hits) :
                     HitAddressesMatch(searchResults'[1].hits[k], query)]_vars

\* Another query was stored and a hit other than the first was selected;
\* 'previous' with the new query selected hit 0.
C19_Witness ==
    /\ last.op = "onSearch"
    /\ last.outcome = "restarted"
    /\ last.args[2] = "previous"
    /\ last.pre[1] # <<>>
    /\ last.pre[1] # <<last.args[1]>>
    /\ last.pre[2] # <<>>
    /\ last.pre[2] # <<0>>
    /\ selectedSearchResult = <<0>>
    /\ searchQuery = <<last.args[1]>>

\* The query occurs at offset o of the content and the scan, which resumes
\* after the end of each occurrence, gets there: no occurrence begins
\* within the Len(query) - 1 offsets before o.
RECURSIVE IsOccurrence(_, _, _)
IsOccurrence(content, query, o) ==
    /\ MatchesAt(content, query, o)
    /\ \A k \in 1..(Len(query) - 1) :
          o - k >= 0 => ~IsOccurrence(content, query, o - k)

ContentOfCell(row, column) ==
    CASE row.type \in {"Added", "Deleted"} -> row.data.content
      [] row.type = "Modified" ->
           IF column = "before" THEN row.beforeData.content ELSE row.afterData.content
      [] OTHER -> row.content

\* The columns the claim has scanned: both of a Context and of a Modified
\* row, the populated one of an Added and of a Deleted row.
ColumnsClaimed(row) ==
    CASE row.type = "Added" -> {IF showSideBySideDiff THEN "after" ELSE "before"}
      [] row.type = "Deleted" -> {"before"}
      [] row.type \in {"Context", "Modified"} -> {"before", "after"}
      [] OTHER -> {}

\* The columns that are scanned: the after column of a Context row in the
\* side-by-side display only.
ColumnsScanned(row) ==
    IF row.type = "Context" /\ ~showSideBySideDiff THEN {"before"}
    ELSE ColumnsClaimed(row)

\* The occurrences of the query in the columns columnsOf gives for the rows.
OccurrencesIn(rows, query, columnsOf(_)) ==
    UNION {UNION {{[row |-> k - 1, column |-> column, offset |-> o,
                    length |-> Len(query)] :
                     o \in {x \in 0..Len(ContentOfCell(rows[k], column).text) :
                              IsOccurrence(ContentOfCell(rows[k], column), query, x)}} :
                  column \in columnsOf(rows[k])} :
           k \in 1..Len(rows)}

\* The hits in state are exactly `occurrences`, each of them once.
HitsAre(occurrences) ==
    IF searchResults = <<>> THEN occurrences = {}
    ELSE /\ {searchResults[1].hits[k] : k \in 1..Len(searchResults[1].hits)} = occurrences
         /\ Len(searchResults[1].hits) = Cardinality(occurrences)

Searched == last.op = "onSearch" /\ last.args[1] # <<>>

\* C20 (as stated): the hits built for a non-empty query are exactly the
\* non-overlapping, case-insensitive, literal occurrences of the query in
\* both columns of every Context and Modified row and in the populated
\* column of every Added and Deleted row; hunk-header rows have no hit.
C20_ScanBothColumns ==
    Searched
      => \A rows \in {Rows} :
            HitsAre(OccurrencesIn(rows, last.args[1], ColumnsClaimed))

\* C20 (amended): as stated, except that the after column of a Context row
\* is scanned in the side-by-side display only; in the unified display a
\* Context row is scanned in its before column alone.
C20_ScanColumnsShown ==
    Searched
      => \A rows \in {Rows} :
            HitsAre(OccurrencesIn(rows, last.args[1], ColumnsScanned))

\* Unified display, query "aa", a Context row "Baaa": one hit, at offset 1
\* of the before column, none at offset 2 and none in the after column.
C20_Witness ==
    /\ Searched
    /\ ~showSideBySideDiff
    /\ searchQuery = << <<"a", "a">> >>
    /\ \E k \in 1..Len(searchResults[1].hits) :
          \E row \in {RowAt(Rows, searchResults[1].hits[k].row)} :
             /\ row[1].type = "Context"
             /\ row[1].content = Str(<<"B", "a", "a", "a">>)
             /\ searchResults[1].hits[k].column = "before"
             /\ searchResults[1].hits[k].offset = 1
    /\ \A k \in 1..Len(searchResults[1].hits) :
          /\ searchResults[1].hits[k].column = "before"
          /\ searchResults[1].hits[k].offset # 2

\* The place of a column in a row: before ahead of after.
ColumnRank(column) == IF column = "before" THEN 0 ELSE 1

\* Hit a is strictly ahead of hit b by row, then column, then offset.
HitAhead(a, b) ==
    \/ a.row < b.row
    \/ a.row = b.row /\ ColumnRank(a.column) < ColumnRank(b.column)
    \/ a.row = b.row /\ a.column = b.column /\ a.offset < b.offset

\* C21: the hit list of every SearchResults in state is in strictly
\* ascending order of row, then column (before ahead of after), then
\* offset; being strict, it has no two hits with the same (row, column,
\* offset).
C21_HitsInScanOrder ==
    searchResults # <<>>
      => \A hits \in {searchResults[1].hits} :
            \A i \in 1..Len(hits), j \in 1..Len(hits) :
               i < j => HitAhead(hits[i], hits[j])

\* A search whose hits lie in two rows, in both columns of a row and at
\* two offsets of a cell.
C21_Witness ==
    /\ Searched
    /\ searchResults # <<>>
    /\ \E hits \in {searchResults[1].hits} :
          /\ \E i \in 1..Len(hits), j \in 1..Len(hits) :
                i < j /\ hits[i].row < hits[j].row
          /\ \E i \in 1..Len(hits), j \in 1..Len(hits) :
                /\ i < j /\ hits[i].row = hits[j].row
                /\ hits[i].column = "before" /\ hits[j].column = "after"
          /\ \E i \in 1..Len(hits), j \in 1..Len(hits) :
                /\ i < j /\ hits[i].row = hits[j].row
                /\ hits[i].column = hits[j].column
                /\ hits[i].offset < hits[j].offset

----------------------------------------------------------------------------
(* Properties of the intra-line emphasis, under SpecClassify and           *)
(* SpecEmphasis.                                                           *)

\* The token lists of the cells of a row that hold a changed line.
TokenListsOf(row) ==
    CASE row.type = "Modified" -> {row.beforeData.tokens, row.afterData.tokens}
      [] row.type \in {"Added", "Deleted"} -> {row.data.tokens}
      [] OTHER -> {}

\* The positions in rows of the rows of a run.
RowsOfRun(lines, run, paired) ==
    (RowsBeforeLine(lines, run[1], paired) + 1)
      ..(RowsBeforeLine(lines, run[1], paired) + RunRowCount(lines, run, paired))

\* C22: for every run of changed lines whose added-line count differs from
\* its deleted-line count, in either display mode, every row produced from
\* the run (Modified, Deleted or Added) carries no intra-line diff token.
C22_NoEmphasisInUnevenRuns ==
    last.op = "render"
      => \A lines \in {AllLines(diff.hunks, 1)} :
            \A run \in MaximalRuns(lines) :
               Len(DeletedOfRun(lines, run)) # Len(AddedOfRun(lines, run))
                 => \A i \in RowsOfRun(lines, run, showSideBySideDiff) :
                       /\ last.outcome.rows[i].type \in {"Modified", "Deleted", "Added"}
                       /\ TokenListsOf(last.outcome.rows[i]) = {<<>>}

\* Side by side, "a" and "ab" deleted and "Baaa" added: the Modified row
\* that pairs "a" with "Baaa" and the Deleted row have no token.
C22_Witness ==
    /\ last.op = "render"
    /\ showSideBySideDiff
    /\ diff = GeneratedDiff(<<"Delete", "Delete", "Add">>)
    /\ Len(last.outcome.rows) = 3
    /\ last.outcome.rows[2].type = "Modified"
    /\ last.outcome.rows[2].beforeData.content # last.outcome.rows[2].afterData.content
    /\ last.outcome.rows[2].beforeData.tokens = <<>>
    /\ last.outcome.rows[2].afterData.tokens = <<>>
    /\ last.outcome.rows[3].type = "Deleted"
    /\ last.outcome.rows[3].data.tokens = <<>>

\* The token lists of the cells that hold deleted[i] and added[i] of the
\* run that begins after `before` rows and has n lines on either side: the
\* two cells of a Modified row in the side-by-side display, a Deleted and an
\* Added row in the unified display.
TokensOfPair(rows, before, n, i) ==
    IF rows[before + i].type = "Modified"
    THEN [before |-> rows[before + i].beforeData.tokens,
          after |-> rows[before + i].afterData.tokens]
    ELSE [before |-> rows[before + i].data.tokens,
          after |-> rows[before + n + i].data.tokens]

\* C23: in a run with as many added as deleted lines, the cells of the
\* pair (deleted[i], added[i]) carry the tokens of the intra-line diff of
\* the two contents if both contents are shorter than 240 characters, and
\* no token if either has 240 or more; the rows are produced in both cases.
C23_EmphasisBelowThreshold ==
    last.op = "render"
      => \A lines \in {AllLines(diff.hunks, 1)} :
            \A run \in MaximalRuns(lines) :
               \A deleted \in {DeletedOfRun(lines, run)}, added \in {AddedOfRun(lines, run)} :
                  Len(deleted) = Len(added)
                    => /\ RunEmittedAs(last.outcome.rows,
                                       RowsBeforeLine(lines, run[1], showSideBySideDiff),
                                       deleted, added,
                                       IF showSideBySideDiff THEN Len(deleted) ELSE 0)
                       /\ \A i \in 1..Len(deleted) :
                            \A tokens \in {TokensOfPair(last.outcome.rows,
                                             RowsBeforeLine(lines, run[1], showSideBySideDiff),
                                             Len(deleted), i)} :
                               IF /\ StrLength(deleted[i].content) < 240
                                  /\ StrLength(added[i].content) < 240
                               THEN /\ tokens.before =
                                         <<getDiffTokens(deleted[i].content, added[i].content).before>>
                                    /\ tokens.after =
                                         <<getDiffTokens(deleted[i].content, added[i].content).after>>
                               ELSE /\ tokens.before = <<>>
                                    /\ tokens.after = <<>>

\* Two deleted and two added lines side by side: the first pair has a
\* deleted line of 240 characters and no token, the second pair, of 1 and
\* of 239 characters, has its tokens.
C23_Witness ==
    /\ last.op = "render"
    /\ showSideBySideDiff
    /\ Len(last.outcome.rows) = 3
    /\ last.outcome.rows[2].type = "Modified"
    /\ StrLength(last.outcome.rows[2].beforeData.content) = 240
    /\ StrLength(last.outcome.rows[2].afterData.content) = 239
    /\ last.outcome.rows[2].beforeData.tokens = <<>>
    /\ last.outcome.rows[2].afterData.tokens = <<>>
    /\ last.outcome.rows[3].type = "Modified"
    /\ StrLength(last.outcome.rows[3].beforeData.content) = 1
    /\ StrLength(last.outcome.rows[3].afterData.content) = 239
    /\ last.outcome.rows[3].beforeData.tokens = <<NoTokens>>
    /\ last.outcome.rows[3].afterData.tokens = <<OneToken(1, 238, "diff-add-inner")>>

----------------------------------------------------------------------------
(* Properties of the hover and of the hunk handle, under SpecHover.        *)

\* C24: in every state with an active transient drag selection no hunk
\* group is marked hovered, and a mouse-enter on a hunk gutter during the
\* drag does not set hoveredHunk.
C24_NoHoverWhileDragging ==
    [][/\ temporarySelection' # <<>> => hoveredHunk' = <<>>
       /\ (last'.op = "onMouseEnterHunk" /\ temporarySelection # <<>>)
            => hoveredHunk' = hoveredHunk]_vars

----------------------------------------------------------------------------
(* Drag selection on a file that cannot be selected, under SpecDrag.       *)

DragHandlers == {"onStartSelection", "onUpdateSelection", "onEndSelection"}

NoCellSelected ==
    \A row \in RowNumbers, column \in Columns : ~RenderedIsSelected(row, column)

\* C25: on a file whose selection is unavailable, no pointer-down,
\* pointer-move or pointer-up emits an include-changed notification,
\* changes the component state or leaves a cell that reports as selected.
C25_DragOnUnselectableIsNoOp ==
    [][(~canSelect(file) /\ last'.op \in DragHandlers)
         => /\ included' = <<>>
            /\ UNCHANGED <<diff, tokenVars, temporarySelection, hoveredHunk, searchVars>>
            /\ NoCellSelected']_vars

\* The range of the hunk handle at diff line h: the numbers in the
\* producer's diff of the first and of the last line of the run of changed
\* lines that holds h; <<>> when h is in no run.
RangeOfHandle(lines, h) ==
    IF \E run \in MaximalRuns(lines) : run[1] <= h + 1 /\ h + 1 <= run[2]
    THEN LET run == CHOOSE r \in MaximalRuns(lines) : r[1] <= h + 1 /\ h + 1 <= r[2]
         IN  <<lines[run[1]].originalLineNumber..lines[run[2]].originalLineNumber>>
    ELSE <<>>

\* C26: onClickHunk leaves the transient drag selection and all other
\* component state unchanged and emits at most one include-changed
\* notification: with a callback, a selectable file and a range found for
\* the hunk start line, the persisted Selection with exactly the lines of
\* the range set to the requested boolean; otherwise nothing.
C26_ClickHunkSelectsRange ==
    [][last'.op = "onClickHunk"
         => /\ UNCHANGED <<diff, tokenVars, dragVars, searchVars, diffToRestore>>
            /\ \A range \in {RangeOfHandle(AllLines(diff.hunks, 1), last'.args[1])} :
                  IF hasOnIncludeChanged /\ canSelect(file) /\ range # <<>>
                  THEN included' = <<IF last'.args[2]
                                     THEN selection \cup range[1]
                                     ELSE selection \ range[1]>>
                  ELSE included' = <<>>]_vars

\* Diff1 with its hunk expanded, a drag begun: the handle of the run at
\* diff line 3 is clicked and lines 2 to 4 of the producer's diff are
\* included; the drag is still there.
C26_Witness ==
    /\ last.op = "onClickHunk"
    /\ last.outcome = "notified"
    /\ last.args = <<3, TRUE>>
    /\ last.pre = <<{}>>
    /\ included = <<{2, 3, 4}>>
    /\ temporarySelection # <<>>

\* C27: a click on a hunk handle with select = true that follows the same
\* click, hence is applied to the Selection that click produced, notifies
\* the same Selection.
C27_AdditiveClickIdempotent ==
    [][(/\ last.op = "onClickHunk"
        /\ last.outcome = "notified"
        /\ last.args[2]
        /\ last'.op = "onClickHunk"
        /\ last'.args = last.args)
         => included' = included]_vars

\* The second of two additive clicks on the handle of lines 2 to 4: it was
\* applied to {2, 3, 4} and notified {2, 3, 4}.
C27_Witness ==
    /\ last.op = "onClickHunk"
    /\ last.outcome = "notified"
    /\ last.args[2]
    /\ last.pre = <<{2, 3, 4}>>
    /\ included = <<{2, 3, 4}>>

----------------------------------------------------------------------------
(* Properties of the discard request, under SpecDiscard.                   *)

\* C28: a discard request carries the producer's diff (props.diff), not
\* the expanded diff of the state, and a Selection whose members are
\* exactly the lines startLine..endLine, whatever the persisted selection;
\* onDiscardChanges changes neither the persisted selection nor the
\* component state, and notifies no include change.
C28_DiscardCarriesProducerDiff ==
    [][last'.op = "onDiscardChanges"
         => /\ last'.outcome # <<>>
                 => /\ last'.outcome[1].diff = propsDiff
                    /\ last'.outcome[1].selection = last'.args[1]..last'.args[2]
            /\ included' = <<>>
            /\ UNCHANGED <<selection, diff, tokenVars, dragVars, searchVars,
                           diffToRestore>>]_vars

\* Diff1 with its hunk expanded and lines 2 to 4 included after a click on
\* the hunk handle: the request to discard lines 3 to 4 carries Diff1 and
\* the Selection {3, 4}.
C28_Witness ==
    /\ last.op = "onDiscardChanges"
    /\ last.args = <<3, 4>>
    /\ last.outcome = <<[diff |-> Diff1, selection |-> {3, 4}]>>
    /\ diff # propsDiff
    /\ selection = {2, 3, 4}


----------------------------------------------------------------------------
(* The overlay leaves its sources alone, under SpecOverlay.                *)

\* The rows in the memoization slot are the rows the classification yields
\* for the inputs in the slot.
MemoizedRowsAsClassified ==
    memoized # <<>>
      => \A inputs \in {memoized[1].inputs} :
            memoized[1].result.rows
              = getDiffRows(inputs.diff.diff, inputs.showSideBySideDiff,
                            inputs.enableDiffExpansion)

\* C29: rendering a row (createFullRow, getRowDataPopulated,
\* getSearchTokens) leaves the token lists of the memoized rows, the
\* SearchResults lookup with the selected index, and the two syntax token
\* tables as they were, and rendering the same row again right away yields
\* the same row with the same token lists.
C29_OverlayLeavesSources ==
    [][last'.op = "renderRow"
         => /\ MemoizedRowsAsClassified'
            /\ (memoized # <<>> /\ memoized'[1].inputs = memoized[1].inputs)
                  => memoized'[1].result = memoized[1].result
            /\ UNCHANGED <<tokenVars, searchVars>>
            /\ (last.op = "renderRow" /\ last.args = last'.args)
                  => last'.outcome = last.outcome]_vars

\* A row was rendered with a search hit, the selected hit and a syntax
\* token laid over it, and the memoized row has none of them.
C29_Witness ==
    /\ Rendered
    /\ \E column \in CellsOf(last.outcome[1]) :
          /\ Len(CellTokens(last.outcome[1], column)) >= 3
          /\ \A row \in {RowAt(memoized[1].result.rows, last.args[1])} :
                CellTokens(row[1], column) = <<>>

----------------------------------------------------------------------------
(* The transient rectangle test, under SpecDrag.                           *)

\* The drag with its two corners exchanged.
Swapped(sel) ==
    IF sel = <<>> THEN <<>>
    ELSE <<[sel[1] EXCEPT !.from = sel[1].to, !.to = sel[1].from]>>

\* C30: a cell (row, column) is within the transient rectangle iff a drag
\* is active, the row is at least the smaller and at most the larger of
\* the rows of from and to, and the column is the column of from or the
\* column of to; the answer is the same with from and to exchanged, and it
\* is false when no drag is active.
C30_TransientRectangle ==
    \A row \in CellRows, column \in Columns :
        /\ isInTemporarySelection(row, column, temporarySelection)
             <=> /\ temporarySelection # <<>>
                 /\ \E from \in {temporarySelection[1].from},
                       to \in {temporarySelection[1].to} :
                       /\ \E low \in {from.row, to.row} :
                             low <= from.row /\ low <= to.row /\ low <= row
                       /\ \E high \in {from.row, to.row} :
                             high >= from.row /\ high >= to.row /\ row <= high
                       /\ column \in {from.column, to.column}
        /\ isInTemporarySelection(row, column, Swapped(temporarySelection))
             = isInTemporarySelection(row, column, temporarySelection)
        /\ temporarySelection = <<>>
             => ~isInTemporarySelection(row, column, temporarySelection)

\* A drag upwards that started in one column and is now in the other: the
\* cells of both columns between the two rows are within the rectangle,
\* a cell above the current row is not.
C30_Witness ==
    /\ temporarySelection # <<>>
    /\ temporarySelection[1].from.row > temporarySelection[1].to.row + 1
    /\ temporarySelection[1].from.column # temporarySelection[1].to.column
    /\ \A column \in Columns :
          /\ isInTemporarySelection(temporarySelection[1].to.row + 1, column,
                                    temporarySelection)
          /\ ~isInTemporarySelection(temporarySelection[1].from.row + 1, column,
                                     temporarySelection)


----------------------------------------------------------------------------
(* Pointer-move during a drag, under SpecDrag.                             *)

\* C31: a pointer-move with a drag active changes the drag's end point
\* and nothing else: the start point and the additive/subtractive flag
\* stay as recorded at pointer-down, the persisted selection stays, and no
\* notification is emitted; a pointer-move with no drag active changes
\* nothing.
C31_MoveChangesEndPointOnly ==
    [][last'.op = "onUpdateSelection"
         => /\ IF temporarySelection = <<>>
               THEN temporarySelection' = <<>>
               ELSE /\ temporarySelection' # <<>>
                    /\ temporarySelection'[1].from = temporarySelection[1].from
                    /\ temporarySelection'[1].isSelected
                         = temporarySelection[1].isSelected
                    /\ temporarySelection'[1].to.row \in RowNumbers
                    /\ temporarySelection'[1].to.column \in Columns
            /\ included' = <<>>
            /\ UNCHANGED <<propsVars, diff, tokenVars, mouseUpListener, hoveredHunk,
                           searchVars, diffToRestore, inFlight>>]_vars

\* A move took the end point of a subtractive drag above its start point,
\* into the other column, with lines included.
C31_Witness ==
    /\ last.op = "onUpdateSelection" /\ last.outcome = "moved"
    /\ temporarySelection # <<>>
    /\ ~temporarySelection[1].isSelected
    /\ temporarySelection[1].to.row < temporarySelection[1].from.row
    /\ temporarySelection[1].to.column # temporarySelection[1].from.column
    /\ selection # {}

----------------------------------------------------------------------------
(* The emphasis of the selected hit, under SpecOverlay.                    *)

\* The token list has a 'selected' token.
HasSelectedToken(tokens) ==
    \E i \in DOMAIN tokens : \E o \in DOMAIN tokens[i] : tokens[i][o].token = "selected"

\* The cells whose search tokens have a 'selected' token.
CellsEmphasised ==
    {cell \in RowNumbers \X Columns :
        HasSelectedToken(PushedAll(getSearchTokens(cell[1], cell[2])))}

\* C32: with search results and a selected index, exactly one cell gets
\* the 'selected' token, the cell (row, column) of the selected hit, at the
\* offset and with the length of that hit and after the ordinary search
\* tokens of the cell; every other cell with hits gets its ordinary search
\* tokens only, and a cell without hits gets no search tokens.
C32_SelectedHitEmphasis ==
    (searchResults # <<>> /\ selectedSearchResult # <<>>)
      => /\ \A hit \in SelectedHit : CellsEmphasised = {<<hit.row, hit.column>>}
         /\ Cardinality(CellsEmphasised) = 1
         /\ \A row \in RowNumbers, column \in Columns :
               \A ordinary \in {[o \in {h.offset : h \in HitsIn(row, column)} |->
                                   [length |-> (CHOOSE h \in HitsIn(row, column) :
                                                   h.offset = o).length,
                                    token |-> "search-result"]]} :
                  getSearchTokens(row, column)
                    = IF HitsIn(row, column) = {} THEN <<>>
                      ELSE IF <<row, column>> \in CellsEmphasised
                      THEN << <<ordinary,
                                OneToken((CHOOSE hit \in SelectedHit : TRUE).offset,
                                         (CHOOSE hit \in SelectedHit : TRUE).length,
                                         "selected")>> >>
                      ELSE << <<ordinary>> >>

\* The row of the selected hit is rendered; its other column has a hit at
\* the same offset and shows no 'selected' token, and another row has hits.
C32_Witness ==
    /\ Rendered
    /\ \E hit \in SelectedHit :
          /\ last.args[1] = hit.row
          /\ HasSelectedToken(CellTokens(last.outcome[1], hit.column))
          /\ \E column \in CellsOf(last.outcome[1]) \ {hit.column} :
                /\ \E other \in HitsIn(hit.row, column) : other.offset = hit.offset
                /\ ~HasSelectedToken(CellTokens(last.outcome[1], column))
          /\ \E row \in RowNumbers \ {hit.row}, column \in Columns :
                HitsIn(row, column) # {}

----------------------------------------------------------------------------
(* The expand/collapse menu item, under SpecExpand.                        *)

\* The handlers the context menu offers for expansion.
ActionsOffered == {item.action : item \in {buildExpandMenuItem[i] : i \in DOMAIN buildExpandMenuItem}}

\* When expansion is possible the menu offers the whole-file expansion
\* exactly when the restore buffer is empty and the collapse exactly when
\* it is not, never both.
C33_OneItemWhenExpandable ==
    canExpandDiff
      => /\ "onExpandWholeFile" \in ActionsOffered <=> diffToRestore = <<>>
         /\ "onCollapseExpandedLines" \in ActionsOffered <=> diffToRestore # <<>>
         /\ Cardinality(ActionsOffered) = 1

\* C33: the menu follows the restore buffer (as above), so the whole-file
\* expansion is not offered while a restore is pending; and in every
\* reachable state with a non-empty restore buffer the collapse is offered.
C33_AffordanceFollowsRestoreBuffer ==
    /\ C33_OneItemWhenExpandable
    /\ diffToRestore # <<>> => "onExpandWholeFile" \notin ActionsOffered
    /\ diffToRestore # <<>> => "onCollapseExpandedLines" \in ActionsOffered

----------------------------------------------------------------------------
(* The preview of a drag and its commit, under SpecPreview.                *)

\* C34: when a drag is released and committed, every cell with a diff
\* line number, of an Added, a Deleted or a Modified row, in either display
\* mode and for every pair of start and end columns, was reported selected
\* (getRowDataPopulated, isInSelection) right before the release exactly
\* if its diff line number is included in the Selection that onEndSelection
\* emits.
C34_PreviewAgreesWithCommit ==
    [][(last'.op = "onEndSelection" /\ included' # <<>>)
         => \A row \in RowNumbers :
               \A column \in UNION {CellsOf(r[1]) : r \in {RowAt(Rows, row)}} :
                  \A n \in {getDiffLineNumber(row, column)} \ {Null} :
                     RenderedIsSelected(row, column) <=> isSelected(included'[1], n)]_vars

----------------------------------------------------------------------------
(* The syntax tokens in state and the highlight parameters, under          *)
(* SpecHighlight.                                                          *)

\* The token table is the one a request issued under the current file,
\* display mode, diff text and file contents resolves to.
OfCurrentParameters(table, side) ==
    /\ fileContents # <<>>
    /\ table = highlightContents(Request(CurrentProps, CurrentState), side)

\* C35: in every reachable state beforeTokens and afterTokens are absent
\* or were produced by a highlight request issued under the current
\* highlight parameters; after a parameter change, also one to absent file
\* contents, tokens of the previous parameters are not in use.
C35_TokensNeverStale ==
    /\ beforeTokens # <<>> => OfCurrentParameters(beforeTokens[1], "oldTokens")
    /\ afterTokens # <<>> => OfCurrentParameters(afterTokens[1], "newTokens")

----------------------------------------------------------------------------
(* Highlighting catches up, under SpecCatchUp.                             *)

\* The tokens in state are the two tables of the current parameters.
TokensOfCurrentParameters ==
    /\ beforeTokens # <<>> /\ OfCurrentParameters(beforeTokens[1], "oldTokens")
    /\ afterTokens # <<>> /\ OfCurrentParameters(afterTokens[1], "newTokens")

----------------------------------------------------------------------------
(* The three parts of the search state, under SpecSearch.                  *)

SearchStateWhole ==
    /\ searchResults # <<>> <=> (searchQuery # <<>> /\ selectedSearchResult # <<>>)
    /\ searchResults # <<>>
         => /\ SearchResultsLength(searchResults[1]) > 0
            /\ selectedSearchResult[1] >= 0
            /\ selectedSearchResult[1] < SearchResultsLength(searchResults[1])

\* C37: in every reachable state searchResults is present exactly if
\* searchQuery and selectedSearchResult are present, and then the hit list
\* is not empty and 0 <= selectedSearchResult < number of hits; showSearch
\* while a search is active leaves query, results and selected hit as they
\* are.
C37_SearchStateNeverDangling ==
    /\ []SearchStateWhole
    /\ [][(last'.op = "showSearch" /\ isSearching)
            => UNCHANGED <<searchQuery, searchResults, selectedSearchResult>>]_vars

\* The search box was asked for again while the last of several hits is
\* selected.
C37_Witness ==
    /\ last.op = "showSearch" /\ last.outcome = "ignored"
    /\ searchResults # <<>> /\ searchQuery # <<>>
    /\ selectedSearchResult = <<SearchResultsLength(searchResults[1]) - 1>>
    /\ SearchResultsLength(searchResults[1]) > 1

----------------------------------------------------------------------------
(* The emphasis tokens and the cells of their pair, under SpecEmphasis.    *)

\* The cells that hold deleted[i] and added[i] of the run that begins
\* after `before` rows and has n lines on either side.
CellsOfPair(rows, before, n, i) ==
    IF rows[before + i].type = "Modified"
    THEN [before |-> rows[before + i].beforeData, after |-> rows[before + i].afterData]
    ELSE [before |-> rows[before + i].data, after |-> rows[before + n + i].data]

\* The token lists the contents of the two cells of a pair call for: the
\* intra-line tokens of the two contents, none when a content has
\* MaxLineLengthToCalculateDiff characters or more.
TokensCalledFor(cells) ==
    IF /\ StrLength(cells.before.content) < MaxLineLengthToCalculateDiff
       /\ StrLength(cells.after.content) < MaxLineLengthToCalculateDiff
    THEN CHOOSE r \in {[before |-> <<t.before>>, after |-> <<t.after>>] :
                         t \in {getDiffTokens(cells.before.content,
                                              cells.after.content)}} : TRUE
    ELSE [before |-> <<>>, after |-> <<>>]

\* C38: in a run with as many added as deleted lines, in the side-by-side
\* and in the unified display, the cells of deleted[i] and added[i] hold
\* those two lines and carry the tokens computed from exactly that pair;
\* the cells of a pair skipped by the length threshold carry none, and the
\* tokens of the pairs before and after it stay with their own cells.
C38_EmphasisStaysWithItsPair ==
    last.op = "render"
      => \A lines \in {AllLines(diff.hunks, 1)} :
            \A run \in MaximalRuns(lines) :
               \A deleted \in {DeletedOfRun(lines, run)}, added \in {AddedOfRun(lines, run)} :
                  Len(deleted) = Len(added)
                    => \A i \in 1..Len(deleted) :
                          \A cells \in {CellsOfPair(last.outcome.rows,
                                          RowsBeforeLine(lines, run[1], showSideBySideDiff),
                                          Len(deleted), i)} :
                             /\ cells.before.diffLineNumber = deleted[i].originalLineNumber
                             /\ cells.after.diffLineNumber = added[i].originalLineNumber
                             /\ cells.before.content = deleted[i].content
                             /\ cells.after.content = added[i].content
                             /\ cells.before.tokens = TokensCalledFor(cells).before
                             /\ cells.after.tokens = TokensCalledFor(cells).after

\* The unified display of two deleted and two added lines: the first pair
\* has a deleted line of 240 characters and no token, the second pair, of
\* 1 and of 239 characters, has its tokens on the second Deleted and the
\* second Added row.
C38_Witness ==
    /\ last.op = "render"
    /\ ~showSideBySideDiff
    /\ Len(last.outcome.rows) = 5
    /\ last.outcome.rows[2].type = "Deleted"
    /\ StrLength(last.outcome.rows[2].data.content) = 240
    /\ last.outcome.rows[2].data.tokens = <<>>
    /\ last.outcome.rows[3].type = "Deleted"
    /\ StrLength(last.outcome.rows[3].data.content) = 1
    /\ last.outcome.rows[3].data.tokens = <<NoTokens>>
    /\ last.outcome.rows[4].type = "Added"
    /\ last.outcome.rows[4].data.tokens = <<>>
    /\ last.outcome.rows[5].type = "Added"
    /\ StrLength(last.outcome.rows[5].data.content) = 239
    /\ last.outcome.rows[5].data.tokens = <<OneToken(1, 238, "diff-add-inner")>>

----------------------------------------------------------------------------
(* Rows and lines, one to one, under SpecClassify.                         *)

\* The row holds the line (line k of hunk h, both counted from 1) in one
\* of its cells.
HoldsLine(row, hunks, h, k) ==
    \E line \in {hunks[h].lines[k]} :
       CASE line.type = "Hunk" ->
              row.type = "Hunk" /\ row.hunkIndex = h - 1 /\ row.content = line.content
         [] line.type = "Context" ->
              /\ row.type = "Context"
              /\ row.content = line.content
              /\ row.beforeLineNumber = line.oldLineNumber
              /\ row.afterLineNumber = line.newLineNumber
         [] line.type = "Delete" ->
              \/ row.type = "Deleted" /\ DataOfDeleted(row.data, line)
              \/ row.type = "Modified" /\ DataOfDeleted(row.beforeData, line)
         [] line.type = "Add" ->
              \/ row.type = "Added" /\ DataOfAdded(row.data, line)
              \/ row.type = "Modified" /\ DataOfAdded(row.afterData, line)

\* The positions of the rows that hold the line.
RowsHolding(rows, hunks, h, k) ==
    {i \in 1..Len(rows) : HoldsLine(rows[i], hunks, h, k)}

\* C39: for every diff and both display modes, every line of every hunk
\* is held by exactly one row cell (a header line by a Hunk row, a context
\* line by a Context row, a changed line by an Added or Deleted row or by
\* one side of a Modified row); there are as many rows as lines less the
\* Modified rows; the rows of an earlier hunk come before the rows of a
\* later hunk; and the rows of one run all have the hunkStartLine that is
\* the unified position of the first line of the run.
C39_RowsAndLinesOneToOne ==
    last.op = "render"
      => \A rows \in {last.outcome.rows}, hunks \in {diff.hunks} :
            /\ \A h \in 1..Len(hunks) : \A k \in 1..Len(hunks[h].lines) :
                  Cardinality(RowsHolding(rows, hunks, h, k)) = 1
            /\ Len(rows) = Len(AllLines(hunks, 1))
                           - Cardinality({i \in 1..Len(rows) : rows[i].type = "Modified"})
            /\ \A h1 \in 1..Len(hunks), h2 \in 1..Len(hunks) :
                  h1 < h2
                    => \A k1 \in 1..Len(hunks[h1].lines), k2 \in 1..Len(hunks[h2].lines) :
                          \A i1 \in RowsHolding(rows, hunks, h1, k1),
                             i2 \in RowsHolding(rows, hunks, h2, k2) : i1 < i2
            /\ \A h \in 1..Len(hunks) :
                  \A run \in MaximalRuns(hunks[h].lines) :
                     \A k \in run[1]..run[2] :
                        \A i \in RowsHolding(rows, hunks, h, k) :
                           rows[i].hunkStartLine = hunks[h].unifiedDiffStart + run[1] - 1

\* The two hunks of the second producer diff side by side: six lines in
\* five rows, one of them Modified, the run of the second hunk at the
\* unified position 4.
C39_Witness ==
    /\ last.op = "render"
    /\ showSideBySideDiff
    /\ diff = Diff2
    /\ Len(last.outcome.rows) = 5
    /\ last.outcome.rows[2].type = "Modified"
    /\ last.outcome.rows[2].hunkStartLine = 1
    /\ last.outcome.rows[3].type = "Hunk"
    /\ last.outcome.rows[4].type = "Added"
    /\ last.outcome.rows[4].hunkStartLine = 4
============================================================================
